---- MODULE Spec2Model ----
(***************************************************************************)
(* LiveTS: the LiveView lifecycle (packages/core/src/decorators.ts), the   *)
(* LiveTSServer event cycle (packages/core/src/server.ts), the selector    *)
(* injector (packages/core/src/utils.ts) and the browser connector         *)
(* (packages/client/src/connector.ts).                                     *)
(*                                                                         *)
(* The specifications:                                                     *)
(*   SpecLife       one LiveView instance driven by arbitrary, possibly    *)
(*                  overlapping, calls of _mount, _render and _unmount;    *)
(*   SpecState      setState and its updated() hook;                       *)
(*   SpecEvents     on, off and handleEvent;                               *)
(*   SpecClient     the Event decorator and the events of a client;        *)
(*   Spec, SpecConns, SpecWire, SpecIso                                    *)
(*                  the server: route handler, broker events, event        *)
(*                  cycles, each with one dimension widened;               *)
(*   SpecPatch      the patch messages of the server and what the          *)
(*                  connector makes of them;                               *)
(*   SpecCodec      the compact client event, encoded and decoded;         *)
(*   SpecReconnect  the connector's socket, reconnection and listeners;    *)
(*   SpecInject     passes of the selector injector over a markup;         *)
(*   SpecTemplate   the html template tag and the marker _render adds;     *)
(*   SpecRegistry   component ids, the short id lookup and close().        *)
(* JavaScript runs every piece of code between two awaits atomically, so   *)
(* one action is the code between two suspension points.                   *)
(***************************************************************************)
EXTENDS Integers, Sequences, FiniteSets, TLC

(***************************************************************************)
(* Bounds.                                                                 *)
(***************************************************************************)
\* lifecycle calls (_mount / _unmount) issued in one run of SpecLife
MaxCalls == 4

Channels == {"ch1", "ch2"}

\* keys and values of a state object; Absent stands for a key the object
\* does not have
Keys == {"a", "b"}
Vals == {0, 1}
Absent == -1

\* event names: inc and render are methods of the subclass, _unmount is a
\* method of LiveView, state is a property that is not a function, nope is
\* no property at all
Names == {"inc", "render", "_unmount", "state", "nope"}
Methods == {"inc", "render", "_unmount"}
\* the functions a subclass registers with on()
Handlers == {"h1", "h2"}

\* the fields of LiveTSConnector
maxReconnectAttempts == 5
reconnectDelay == 1000

\* sockets opened by one connector in a run
MaxSockets == 8

DomEvents == {"click", "input", "submit", "change"}

\* opening tags of a markup given to the injector, passes over it
MaxTags == 3
MaxPasses == 2

\* characters of a field of a client event
MaxField == 2

\* tokens of a document kept by one run, ops of one batch
MaxDoc == 8
MaxBatch == 2

\* markup as tokens: <x data-..="id" a="n">, text n, </x>; n = 0 in an open
\* token when the element has no attribute a
Open(id, a) == [t |-> "open", id |-> id, n |-> a]
Text(n) == [t |-> "text", id |-> "", n |-> n]
CloseTok == [t |-> "close", id |-> "", n |-> 0]
Elem(id, n) == <<Open(id, 0), Text(n), CloseTok>>

\* the markup of a render [id, body]: the root element, to which
\* wrapWithComponentId gave the id, around one reactive element s0
PageOf(h) == <<Open(h.id, 0), Open("s0", 0), Text(h.body), CloseTok, CloseTok>>

\* no markup: a Map without the entry, a call that threw
NoHtml == [id |-> "none", body |-> -1]

(***************************************************************************)
(* State.                                                                  *)
(***************************************************************************)
VARIABLES
  lv,        \* the instance: [mounted, subs]
  lvHook,    \* does the subclass define unmount()?
  lvCalls,   \* the _mount/_unmount calls issued so far, a sequence of
             \* [op, pc, result]; pc = "await" while the hook is pending
  lvRender,  \* the last _render call: [seen, ok, hook, live, busy]
  lvGhost,   \* history: [live, unmountRuns, unsubs, hookFailed]
  lvState,   \* the instance's state object: key -> value, Absent when the
             \* object has no such key
  lvSet      \* the last setState call: [seen, updates, prev, hook, threw,
             \* scheduled]

VARIABLES
  lvHandlers,  \* the eventHandlers map: event name -> handler, "none"
               \* when the map has no entry
  lvDispatch,  \* the last handleEvent call: [seen, event, reg, kind, who,
               \* prev, threw]
  protoHandlers  \* the _eventHandlers map the Event decorator keeps on the
                 \* prototype: event name -> decorated method, "none"
                 \* when the map has no entry

eventVars == <<lvHandlers, lvDispatch, protoHandlers>>

VARIABLES
  wsState,            \* this.ws.readyState of the connector:
                      \* "connecting" | "open" | "closing" | "closed"
  reconnectAttempts,  \* the connector's counter
  timerPending,       \* a setTimeout of attemptReconnect has not fired yet
  lastDelay,          \* the delay of the last setTimeout, 0 before any
  listeners,          \* DOM event type -> listeners on document
  lastSent,           \* history: event messages sent for the last user
                      \* interaction, -1 before any
  manual              \* history: disconnect() has been called

connVars == <<wsState, reconnectAttempts, timerPending, lastDelay, listeners,
              manual,
              lastSent>>

VARIABLES
  doc,        \* the browser's document: a sequence of tokens, an element
              \* being an open token, its children and a close token
  pageCache,  \* the server's cached render of the component on the page
  lastRx      \* history: the last message the connector handled, as
              \* [seen, via, old, new, nops, kind, batch]: the path that
              \* produced it, the renders it was produced for, the number
              \* of ops in it, how handleMessage ended and the batch
              \* given to applyPatches

patchVars == <<doc, pageCache, lastRx>>

VARIABLES
  evTuple,    \* the client event the fallback connector is about to send:
              \* [shortId, eventName, value, checked, tagName], strings
              \* being sequences of characters
  evWire,     \* the text sent for it, <<>> before it is sent
  evDecoded   \* what handleCompactEvent made of the text: [seen, ok, tuple]

codecVars == <<evTuple, evWire, evDecoded>>

VARIABLES
  injIn,    \* the markup given to injectReactiveSelectorsSmart: its
            \* opening tags in document order, each the sequence of its
            \* attributes
  injOut,   \* the markup returned by the last pass
  injPrev,  \* the markup given to the last pass
  injPass   \* passes made so far over the markup

injVars == <<injIn, injOut, injPrev, injPass>>

VARIABLES
  tplIn,    \* the template a render hook evaluates with the html tag:
            \* [strings, values], strings being sequences of characters
  tplOut,   \* what the html tag returned for it: [seen, text]
  wrapOut   \* what _render returned for that markup: [seen, text]

tplVars == <<tplIn, tplOut, wrapOut>>

VARIABLES
  liveObjs,    \* the instances the route handler created, in order of
               \* creation: [id, mounted, cleanups], cleanups counting the
               \* runs of the unmount hook
  acEntries,   \* the entries of activeComponents in insertion order:
               \* [id, obj], obj an index of liveObjs
  cacheKeys,   \* the keys of componentHtmlCache
  closePc,     \* close(): "idle", "running", "resolved" or "rejected"
  closePos,    \* the position of close()'s iterator in activeComponents
  lastRouted   \* history: the last compact event, [seen, from, to]: the
               \* instance whose page sent it and the instance whose
               \* handler got it (0 when none did)

regVars == <<liveObjs, acEntries, cacheKeys, closePc, closePos, lastRouted>>

\* the variables of the parts that stand beside the instance's lifecycle
sideVars == <<eventVars, connVars, patchVars, codecVars, injVars,
             tplVars, regVars>>

stateVars == <<lvState, lvSet, sideVars>>

lifeVars == <<lv, lvHook, lvCalls, lvRender, lvGhost, stateVars>>

VARIABLES
  hasEngine,             \* rustEngine present, with parseEventAndGetCache
  views,                 \* the LiveView instances: [mounted, subs, state]
  route,                 \* per instance, the GET request that creates it:
                         \* pc "idle" | "mounting" | "ok" (200) |
                         \* "mountFailed" | "renderFailed" (500), and the
                         \* number of times its mount hook was run
  activeComponents,      \* keys of the activeComponents map
  componentHtmlCache,    \* id -> html, NoHtml when the map has no entry
  brokerConnComponents,  \* connection -> set of ids, {} when no entry
  conns,                 \* connection -> "new" | "open" | "closed"
  tasks,                 \* the client events being handled, by slot
  microq,                \* the microtask queue: slots whose await resolved
  registerCalls,         \* calls of rustBroker.registerComponent(id, conn)
  unregisterCalls,       \* calls of rustBroker.unregisterComponent(id, conn)
  lastDelivered,         \* history: per component, the markup of the last
                         \* render that reached a client
  genq,                  \* history: per component, the slots whose render
                         \* was generated and not yet sent, in that order
  lastSend,              \* history: the last sendToConnection call, as
                         \* [to, from]: the connection it named and the
                         \* connection its event came from
  dropped,               \* history: how the last broker event that was
                         \* not dispatched to an event path ended
  pendingOutside         \* history: per component, was setState called
                         \* outside an event cycle and the new state not
                         \* delivered since?

serverVars == <<hasEngine, views, route, activeComponents, componentHtmlCache,
                brokerConnComponents, conns, tasks, microq, registerCalls,
                unregisterCalls, lastDelivered, genq, lastSend, dropped,
                pendingOutside>>

\* what the event paths never write, up to the send
otherVars == <<lifeVars, hasEngine, dropped>>

quietVars == <<otherVars, lastSend, pendingOutside>>

vars == <<lifeVars, serverVars>>

(***************************************************************************)
(* LiveView (decorators.ts).  A view is the part of the instance the       *)
(* lifecycle reads and writes: metadata.mounted, metadata.subscriptions.   *)
(***************************************************************************)
NewLiveView == [mounted |-> FALSE, subs |-> {}]

\* wrapWithComponentId: the markup with the data-livets-id of the component
wrapWithComponentId(id, html) == [id |-> id, body |-> html]

\* _render with the mounted check dropped (mutant)
LiveView_render_nocheck(v, id, body, hookThrows) ==
  IF hookThrows
    THEN [ok |-> FALSE, hook |-> TRUE, html |-> NoHtml]
    ELSE [ok |-> TRUE, hook |-> TRUE, html |-> wrapWithComponentId(id, body)]

\* _render(): throws when not mounted, before the user hook is called;
\* otherwise calls render() and wraps its markup, rethrowing what it throws.
LiveView_render(v, id, body, hookThrows) ==
  IF ~v.mounted
    THEN [ok |-> FALSE, hook |-> FALSE, html |-> NoHtml]
    ELSE IF hookThrows
      THEN [ok |-> FALSE, hook |-> TRUE, html |-> NoHtml]
      ELSE [ok |-> TRUE, hook |-> TRUE, html |-> wrapWithComponentId(id, body)]

\* _mount(), up to the await: returns at once on a mounted instance,
\* otherwise calls the user mount hook.
LiveView_mountSkips(v) == v.mounted

\* _mount(), after the await: mounted is set only when the hook succeeded.
LiveView_mountSettle(v, hookOk) ==
  IF hookOk THEN [v EXCEPT !.mounted = TRUE] ELSE v

\* _mount swallowing the error of the hook (mutant)
LiveView_mountThrows_swallow(hookOk) == FALSE

\* _mount(), the catch: the error of the hook is logged and thrown again.
LiveView_mountThrows(hookOk) == ~hookOk

\* _unmount(), up to the await: returns at once on an unmounted instance,
\* otherwise unsubscribes every channel and calls the user unmount hook.
LiveView_unmountSkips(v) == ~v.mounted

LiveView_unmountBegin(v) == [v EXCEPT !.subs = {}]

\* _unmount(), after the await: mounted is cleared only when the hook
\* succeeded; a hook that throws leaves the flag set and is rethrown.
LiveView_unmountSettle(v, hookOk) ==
  IF hookOk THEN [v EXCEPT !.mounted = FALSE] ELSE v

(***************************************************************************)
(* SpecLife: one instance, its lifecycle methods called in any order.      *)
(***************************************************************************)
EventInit ==
  /\ lvHandlers = [n \in Names |-> "none"]
  /\ lvDispatch = [seen |-> FALSE, event |-> "none", reg |-> "none",
                   kind |-> "none", who |-> "none",
                   prev |-> [k \in Keys |-> Absent], threw |-> FALSE]
  /\ protoHandlers = [n \in Names |-> "none"]

\* new LiveTSConnector(): the socket is created and setupEventListeners
\* has run once
ConnInit ==
  /\ wsState = "connecting"
  /\ reconnectAttempts = 0
  /\ timerPending = FALSE
  /\ lastDelay = 0
  /\ listeners = [e \in DomEvents |-> 1]
  /\ lastSent = -1
  /\ manual = FALSE

\* the page as the GET route rendered it
PatchInit ==
  /\ pageCache = [id |-> "k1", body |-> 0]
  /\ doc = PageOf([id |-> "k1", body |-> 0])
  /\ lastRx = [seen |-> FALSE, via |-> "none", old |-> NoHtml,
               new |-> NoHtml, nops |-> 0, kind |-> "none", batch |-> <<>>]

NoTuple ==
  [shortId |-> <<>>, eventName |-> <<>>, value |-> <<>>, checked |-> FALSE,
   tagName |-> <<>>]

\* no client event yet
CodecInit ==
  /\ evTuple = NoTuple
  /\ evWire = <<>>
  /\ evDecoded = [seen |-> FALSE, ok |-> FALSE, tuple |-> NoTuple]

\* no markup injected yet
InjInit ==
  /\ injIn = <<>>
  /\ injOut = <<>>
  /\ injPrev = <<>>
  /\ injPass = 0

\* no template evaluated yet
TplInit ==
  /\ tplIn = [strings |-> <<<<>>>>, values |-> <<>>]
  /\ tplOut = [seen |-> FALSE, text |-> <<>>]
  /\ wrapOut = [seen |-> FALSE, text |-> <<>>]

\* a server that has created no instance
RegInit ==
  /\ liveObjs = <<>>
  /\ acEntries = <<>>
  /\ cacheKeys = {}
  /\ closePc = "idle"
  /\ closePos = 0
  /\ lastRouted = [seen |-> FALSE, from |-> 0, to |-> 0]

SideInit == EventInit /\ ConnInit /\ PatchInit /\ CodecInit /\ InjInit
              /\ RegInit
              /\ TplInit

LiveViewInit ==
  /\ lv = NewLiveView
  /\ lvHook \in BOOLEAN
  /\ lvCalls = <<>>
  /\ lvRender = [seen |-> FALSE, ok |-> FALSE, hook |-> FALSE,
                 live |-> FALSE, busy |-> FALSE]
  /\ lvGhost = [live |-> FALSE, unmountRuns |-> 0,
                unsubs |-> [c \in Channels |-> 0], hookFailed |-> FALSE]
  /\ lvState = [k \in Keys |-> Absent]
  /\ lvSet = [seen |-> FALSE, updates |-> [k \in Keys |-> Absent],
              prev |-> [k \in Keys |-> Absent], hook |-> "none",
              threw |-> FALSE, scheduled |-> FALSE]

LifeInit == SideInit /\ LiveViewInit

MountPending == \E i \in 1..Len(lvCalls) :
                   lvCalls[i].op = "mount" /\ lvCalls[i].pc = "await"

\* a call of _mount(): synchronous part
CallMount ==
  /\ Len(lvCalls) < MaxCalls
  /\ IF LiveView_mountSkips(lv)
       THEN lvCalls' = Append(lvCalls, [op |-> "mount", pc |-> "done",
                                        result |-> "ok", ran |-> FALSE])
       ELSE lvCalls' = Append(lvCalls, [op |-> "mount", pc |-> "await",
                                        result |-> "none", ran |-> TRUE])
  /\ UNCHANGED <<lv, lvHook, lvRender, lvGhost>>
  /\ UNCHANGED <<stateVars, serverVars>>

\* the user mount hook settles; it may have subscribed to channels
SettleMount(i, hookOk, S) ==
  /\ lvCalls[i].op = "mount" /\ lvCalls[i].pc = "await"
  /\ lv' = [LiveView_mountSettle(lv, hookOk) EXCEPT !.subs = lv.subs \cup S]
  /\ lvCalls' = [lvCalls EXCEPT ![i].pc = "done",
                   ![i].result = IF hookOk THEN "ok" ELSE "error"]
  /\ lvGhost' = [lvGhost EXCEPT
                   !.live = IF hookOk THEN TRUE ELSE @,
                   !.unmountRuns = IF hookOk /\ ~lvGhost.live THEN 0 ELSE @,
                   !.unsubs = IF hookOk /\ ~lvGhost.live
                                THEN [c \in Channels |-> 0] ELSE @]
  /\ UNCHANGED <<lvHook, lvRender>>
  /\ UNCHANGED <<stateVars, serverVars>>

\* a call of _unmount(): synchronous part
CallUnmount ==
  /\ Len(lvCalls) < MaxCalls
  /\ IF LiveView_unmountSkips(lv)
       THEN /\ lvCalls' = Append(lvCalls, [op |-> "unmount", pc |-> "done",
                                           result |-> "ok", ran |-> FALSE])
            /\ UNCHANGED <<lv, lvGhost>>
       ELSE /\ lv' = IF lvHook THEN LiveView_unmountBegin(lv)
                     ELSE LiveView_unmountSettle(LiveView_unmountBegin(lv), TRUE)
            /\ lvCalls' = Append(lvCalls,
                 IF lvHook
                   THEN [op |-> "unmount", pc |-> "await",
                         result |-> "none", ran |-> TRUE]
                   ELSE [op |-> "unmount", pc |-> "done",
                         result |-> "ok", ran |-> TRUE])
            /\ lvGhost' = [lvGhost EXCEPT
                 !.unsubs = [c \in Channels |->
                               IF c \in lv.subs THEN @[c] + 1 ELSE @[c]],
                 !.unmountRuns = IF lvHook THEN @ + 1 ELSE @,
                 !.live = IF lvHook THEN @ ELSE FALSE]
  /\ UNCHANGED <<lvHook, lvRender>>
  /\ UNCHANGED <<stateVars, serverVars>>

\* the user unmount hook settles
SettleUnmount(i, hookOk) ==
  /\ lvCalls[i].op = "unmount" /\ lvCalls[i].pc = "await"
  /\ lv' = LiveView_unmountSettle(lv, hookOk)
  /\ lvCalls' = [lvCalls EXCEPT ![i].pc = "done",
                   ![i].result = IF hookOk THEN "ok" ELSE "error"]
  /\ lvGhost' = [lvGhost EXCEPT
                   !.live = IF hookOk THEN FALSE ELSE @,
                   !.hookFailed = IF hookOk THEN @ ELSE TRUE]
  /\ UNCHANGED <<lvHook, lvRender>>
  /\ UNCHANGED <<stateVars, serverVars>>

\* a call of _render(): synchronous
CallRender(hookThrows) ==
  /\ LET r == LiveView_render(lv, "k", 0, hookThrows) IN
       lvRender' = [seen |-> TRUE, ok |-> r.ok, hook |-> r.hook,
                    live |-> lvGhost.live, busy |-> MountPending]
  /\ UNCHANGED <<lv, lvHook, lvCalls, lvGhost>>
  /\ UNCHANGED <<stateVars, serverVars>>

\* the outcomes of the optional updated() hook: not defined, returns,
\* throws, returns a promise that rejects
UpdatedOutcomes == {"none", "ok", "throw", "reject"}

\* setState(updates): the state is replaced by the shallow merge, a mounted
\* instance calls scheduleRerender, then this.updated() is called inside
\* Promise.resolve(...).catch(...): a rejection is caught and logged, while
\* a hook that throws does so before the promise exists and the error
\* leaves setState
LiveView_setState(st, mounted, updates, hook) ==
  [state |-> [k \in Keys |-> IF updates[k] # Absent THEN updates[k]
                                                    ELSE st[k]],
   scheduled |-> mounted,
   threw |-> hook = "throw"]

\* a call of setState
SetState(updates, hook) ==
  /\ LET r == LiveView_setState(lvState, lv.mounted, updates, hook) IN
       /\ lvState' = r.state
       /\ lvSet' = [seen |-> TRUE, updates |-> updates, prev |-> lvState,
                    hook |-> hook, threw |-> r.threw,
                    scheduled |-> r.scheduled]
  /\ UNCHANGED <<lv, lvHook, lvCalls, lvRender, lvGhost, sideVars,
                 serverVars>>

\* the variables the event dispatch leaves alone
eventRest == <<lvHook, lvCalls, lvRender, lvGhost, lvSet, connVars,
               patchVars, codecVars, injVars, tplVars, regVars, serverVars>>

\* handleEvent consulting the same-named method before the map (mutant)
LiveView_handleEvent_methodFirst(handlers, event) ==
  IF event \in Methods
    THEN [kind |-> "method", who |-> event, threw |-> FALSE]
  ELSE IF handlers[event] # "none"
    THEN [kind |-> "handler", who |-> handlers[event], threw |-> FALSE]
  ELSE [kind |-> "warn", who |-> "none", threw |-> FALSE]

\* handleEvent(event, payload): the handler the map holds for the name,
\* else the property of that name if it is a function, else a warning
LiveView_handleEvent(handlers, event) ==
  IF handlers[event] # "none"
    THEN [kind |-> "handler", who |-> handlers[event], threw |-> FALSE]
  ELSE IF event \in Methods
    THEN [kind |-> "method", who |-> event, threw |-> FALSE]
  ELSE [kind |-> "warn", who |-> "none", threw |-> FALSE]

\* what the functions of the subclass pass to setState when invoked
UpdatesOf(who) ==
  CASE who = "h1" -> [k \in Keys |-> IF k = "a" THEN 1 ELSE Absent]
    [] who = "h2" -> [k \in Keys |-> IF k = "b" THEN 1 ELSE Absent]
    [] who = "inc" -> [k \in Keys |-> IF k = "a" THEN 0 ELSE Absent]
    [] OTHER -> [k \in Keys |-> Absent]

\* this.on(event, handler)
On(event, handler) ==
  /\ lvHandlers' = [lvHandlers EXCEPT ![event] = handler]
  /\ UNCHANGED <<eventRest, lv, lvState, lvDispatch, protoHandlers>>

\* this.off(event)
Off(event) ==
  /\ lvHandlers[event] # "none"
  /\ lvHandlers' = [lvHandlers EXCEPT ![event] = "none"]
  /\ UNCHANGED <<eventRest, lv, lvState, lvDispatch, protoHandlers>>

\* decorated methods of one class
MaxDecorated == 1

\* the Event(eventName) decorator applied to a method of the class, which
\* happens when the class is defined, before there is an instance:
\* target._eventHandlers.set(eventName, descriptor.value)
DecorateEvent(eventName, method) ==
  /\ lvCalls = <<>> /\ ~lvDispatch.seen
  /\ Cardinality({n \in Names : protoHandlers[n] # "none"}) < MaxDecorated
  /\ protoHandlers' = [protoHandlers EXCEPT ![eventName] = method]
  /\ UNCHANGED <<eventRest, lv, lvState, lvHandlers, lvDispatch>>

\* a call of handleEvent(event, payload), the function it invokes run to
\* its end: a function of the subclass calls setState, _unmount runs as
\* it does for any caller, its hook returning or throwing
HandleEvent(event, hookOk) ==
  /\ LET r == LiveView_handleEvent(lvHandlers, event) IN
       /\ lvDispatch' = [seen |-> TRUE, event |-> event,
                         reg |-> lvHandlers[event], kind |-> r.kind,
                         who |-> r.who, prev |-> lvState, threw |-> r.threw]
       /\ lvState' = LiveView_setState(lvState, lv.mounted,
                                       UpdatesOf(r.who), "none").state
       /\ lv' = IF r.who = "_unmount" /\ ~LiveView_unmountSkips(lv)
                  THEN LiveView_unmountSettle(LiveView_unmountBegin(lv),
                                              hookOk)
                  ELSE lv
  /\ UNCHANGED <<eventRest, lvHandlers, protoHandlers>>

LifeNext ==
  \/ CallMount
  \/ \E i \in 1..Len(lvCalls), ok \in BOOLEAN, S \in SUBSET Channels :
       SettleMount(i, ok, S)
  \/ CallUnmount
  \/ \E i \in 1..Len(lvCalls), ok \in BOOLEAN : SettleUnmount(i, ok)
  \/ \E t \in BOOLEAN : CallRender(t)

(***************************************************************************)
(* LiveTSServer (server.ts).                                               *)
(***************************************************************************)
\* client events whose handling is in progress at one time
MaxInFlight == 2
\* values of a component's state (a counter that wraps around)
NStates == 3

Comps == {"k1", "k2"}     \* component ids; an id is unknown to the server
                          \* until the route handler has created its instance
Conns == {"c1", "c2"}
Forms == {"compact", "json"}   \* "e|..." ; {"type":"event",...} (the direct
                               \* and the JSON.parse path treat it alike)
Slots == 1..MaxInFlight

\* render(): the markup is a function of the state; the hook of the modelled
\* component class throws in state 2
RenderThrows(s) == s = 2

Idle == [pc |-> "idle", conn |-> "none", form |-> "none", target |-> "none",
         path |-> "none", hres |-> "none", ok |-> FALSE, old |-> NoHtml,
         new |-> NoHtml, runs |-> 0, bad |-> "none"]

NewTask(c, f, id) == [Idle EXCEPT !.pc = "new", !.conn = c, !.form = f,
                                  !.target = id]

ServerInit ==
  /\ hasEngine \in BOOLEAN
  /\ views = [k \in Comps |-> [mounted |-> FALSE, subs |-> {}, state |-> 0]]
  /\ route = [k \in Comps |-> [pc |-> "idle", mountRuns |-> 0]]
  /\ activeComponents = {}
  /\ componentHtmlCache = [k \in Comps |-> NoHtml]
  /\ brokerConnComponents = [c \in Conns |-> {}]
  /\ conns = [c \in Conns |-> "new"]
  /\ tasks = [i \in Slots |-> Idle]
  /\ microq = <<>>
  /\ registerCalls = [c \in Conns |-> [k \in Comps |-> 0]]
  /\ unregisterCalls = [c \in Conns |-> [k \in Comps |-> 0]]
  /\ lastDelivered = [k \in Comps |-> NoHtml]
  /\ genq = [k \in Comps |-> <<>>]
  /\ lastSend = [to |-> "none", from |-> "none"]
  /\ dropped = "none"
  /\ pendingOutside = [k \in Comps |-> FALSE]

\* component._render() of instance k in the current state
RenderOf(k) ==
  LiveView_render(views[k], k, views[k].state, RenderThrows(views[k].state))

\* setState writing the state of every instance (mutant)
Bumped_all(k, d) ==
  [x \in Comps |-> [views[x] EXCEPT !.state = (@ + d) % NStates]]

\* setState inside a user hook: the counter advances by d
Bumped(k, d) == [views EXCEPT ![k].state = (@ + d) % NStates]

\* findComponentIdByShortId / activeComponents.get: the component addressed
Found(id) == id \in activeComponents

Without(q, i) == SelectSeq(q, LAMBDA x : x # i)

\* the Closed loop with the unregisterComponent call left out (mutant)
UnregisterAll_none(calls, c, set) == calls

\* for (const componentId of set) rustBroker.unregisterComponent(componentId, c)
UnregisterAll(calls, c, set) ==
  [calls EXCEPT ![c] = [k \in Comps |-> IF k \in set THEN @[k] + 1 ELSE @[k]]]

\* a connection event of the broker: Connected
Connected(c) ==
  /\ microq = <<>>
  /\ conns[c] = "new"
  /\ conns' = [conns EXCEPT ![c] = "open"]
  /\ UNCHANGED <<quietVars, views, route, activeComponents,
                 componentHtmlCache, brokerConnComponents, tasks, microq,
                 registerCalls, unregisterCalls, lastDelivered, genq>>

\* handleBrokerEvent, case 'Closed': unregister every recorded component of
\* the connection, then delete its entry
Closed(c) ==
  /\ microq = <<>>
  /\ conns[c] = "open"
  /\ conns' = [conns EXCEPT ![c] = "closed"]
  /\ unregisterCalls' =
       UnregisterAll(unregisterCalls, c, brokerConnComponents[c])
  /\ brokerConnComponents' = [brokerConnComponents EXCEPT ![c] = {}]
  /\ UNCHANGED <<quietVars, views, route, activeComponents,
                 componentHtmlCache, tasks, microq, registerCalls,
                 lastDelivered, genq>>

\* the route handler after `await component._mount()` has settled: on success
\* store the instance, render it, cache the markup and answer with the page;
\* a throw anywhere answers 500.  The mount hook that succeeds has set the
\* initial state s0.
RouteSettled(k, hookOk, s0, n) ==
  LET v == IF hookOk THEN [views[k] EXCEPT !.state = s0] ELSE views[k]
      w == LiveView_mountSettle(v, hookOk)
      r == LiveView_render(w, k, w.state, RenderThrows(w.state))
  IN /\ views' = [views EXCEPT ![k] = w]
     /\ IF ~LiveView_mountThrows(hookOk)
          THEN /\ activeComponents' = activeComponents \cup {k}
               /\ IF r.ok
                    THEN /\ componentHtmlCache' =
                              [componentHtmlCache EXCEPT ![k] = r.html]
                         /\ lastDelivered' =
                              [lastDelivered EXCEPT ![k] = r.html]
                         /\ route' = [route EXCEPT ![k] =
                                        [pc |-> "ok", mountRuns |-> n]]
                    ELSE /\ route' = [route EXCEPT ![k] =
                                        [pc |-> "renderFailed",
                                         mountRuns |-> n]]
                         /\ UNCHANGED <<componentHtmlCache, lastDelivered>>
          ELSE /\ route' = [route EXCEPT ![k] =
                              [pc |-> "mountFailed", mountRuns |-> n]]
               /\ UNCHANGED <<activeComponents, componentHtmlCache,
                              lastDelivered>>

\* GET on a component route: new ComponentClass(props), then _mount(); the
\* mount hook returns, throws or suspends
RouteStart(k, hout, s0) ==
  /\ microq = <<>>
  /\ route[k].pc = "idle"
  /\ ~LiveView_mountSkips(views[k])
  /\ IF hout = "suspend"
       THEN /\ route' = [route EXCEPT ![k] =
                           [pc |-> "mounting", mountRuns |-> @.mountRuns + 1]]
            /\ UNCHANGED <<views, activeComponents, componentHtmlCache,
                           lastDelivered>>
       ELSE RouteSettled(k, hout = "ok", s0, route[k].mountRuns + 1)
  /\ UNCHANGED <<quietVars, brokerConnComponents, conns, tasks,
                 microq, registerCalls, unregisterCalls, genq>>

\* the pending mount hook of the route handler settles
RouteSettle(k, hookOk, s0) ==
  /\ microq = <<>>
  /\ route[k].pc = "mounting"
  /\ RouteSettled(k, hookOk, s0, route[k].mountRuns)
  /\ UNCHANGED <<quietVars, brokerConnComponents, conns, tasks,
                 microq, registerCalls, unregisterCalls, genq>>

HandlerOutcomes == {"ok", "throw", "suspend"}

\* The compact / direct / JSON path up to its first await:
\*   handleCompactEvent looks the component up and returns when there is none,
\*   then records (conn, id); handleEventMessageDirect and
\*   handleClientEventFromBroker record (conn, id) first;
\*   processEventAndGenerateMessage returns null for an unknown id, takes the
\*   cached markup (or renders) as oldHtml and calls component.handleEvent,
\*   whose synchronous part advances the state by d and returns, throws or
\*   suspends.  q is the microtask queue the step leaves behind it.
FallbackStart(i, tk, q, hout, d) ==
  LET c == tk.conn
      id == tk.target
      rec == tk.form # "compact" \/ Found(id)
      old == IF ~Found(id) THEN [ok |-> FALSE, html |-> NoHtml]
             ELSE IF componentHtmlCache[id] # NoHtml
               THEN [ok |-> TRUE, html |-> componentHtmlCache[id]]
               ELSE RenderOf(id)
  IN
  /\ brokerConnComponents' =
       IF rec THEN [brokerConnComponents EXCEPT ![c] = @ \cup {id}]
       ELSE brokerConnComponents
  /\ registerCalls' =
       IF rec /\ id \notin brokerConnComponents[c]
         THEN [registerCalls EXCEPT ![c][id] = @ + 1]
         ELSE registerCalls
  /\ IF old.ok
       THEN /\ views' = Bumped(id, d)
            /\ tasks' = [tasks EXCEPT ![i] =
                 IF hout = "throw" THEN Idle
                 ELSE [tk EXCEPT
                   !.path = "fb", !.form = "none", !.old = old.html,
                   !.new = NoHtml,
                   !.runs = @ + 1, !.ok = FALSE,
                   !.pc = IF hout = "ok" THEN "fin" ELSE "io",
                   !.hres = IF hout = "ok" THEN "ok" ELSE "none"]]
            /\ microq' = IF hout = "ok" THEN Append(q, i) ELSE q
       ELSE /\ tasks' = [tasks EXCEPT ![i] = Idle]
            /\ microq' = q
            /\ UNCHANGED views
  /\ genq' = IF Found(id) THEN [genq EXCEPT ![id] = Without(@, i)] ELSE genq
  /\ UNCHANGED <<quietVars, route, activeComponents,
                 componentHtmlCache, conns, unregisterCalls, lastDelivered>>

\* The optimized path up to its first await: parseEventAndGetCache has
\* returned the event; handleEventProcessingRequest answers success: false for
\* an unknown id or a handler that throws, else awaits the handler.
OptStart(i, tk, q, hout, d) ==
  LET id == tk.target IN
  /\ IF Found(id)
       THEN /\ views' = Bumped(id, d)
            /\ tasks' = [tasks EXCEPT ![i] = [tk EXCEPT
                 !.path = "opt", !.runs = @ + 1, !.ok = FALSE,
                 !.pc = CASE hout = "ok" -> "ofin"
                          [] hout = "suspend" -> "io"
                          [] OTHER -> "osend",
                 !.hres = IF hout = "ok" THEN "ok" ELSE "none",
                 !.bad = IF hout = "throw" THEN "handler" ELSE "none"]]
            /\ microq' = IF hout = "suspend" THEN q ELSE Append(q, i)
       ELSE /\ tasks' = [tasks EXCEPT ![i] =
                           [tk EXCEPT !.path = "opt", !.ok = FALSE,
                                      !.pc = "osend"]]
            /\ microq' = Append(q, i)
            /\ UNCHANGED views
  /\ UNCHANGED <<quietVars, route, activeComponents,
                 componentHtmlCache, brokerConnComponents, conns,
                 registerCalls, unregisterCalls, lastDelivered, genq>>

\* the lowest free slot
FreeSlot(i) == tasks[i].pc = "idle" /\ \A j \in 1..(i - 1) : tasks[j].pc # "idle"

\* handleBrokerEvent, case 'Message', for a client event: with the engine the
\* optimized path, unless parseEventAndGetCache throws; else the fallback
Message(i, c, f, id, parseOk, hout, d) ==
  /\ microq = <<>>
  /\ conns[c] = "open"
  /\ FreeSlot(i)
  /\ IF hasEngine /\ parseOk
       THEN OptStart(i, NewTask(c, f, id), <<>>, hout, d)
       ELSE FallbackStart(i, NewTask(c, f, id), <<>>, hout, d)

\* the promise a suspended handler waits for settles: the rest of the handler
\* runs, advancing the state by d, and the handler returns or rejects; the
\* code awaiting the handler is queued behind the microtasks already queued.
HandlerResumes(i, ok, d) ==
  /\ tasks[i].pc = "io"
  /\ views' = Bumped(tasks[i].target, d)
  /\ tasks' = [tasks EXCEPT
       ![i].pc = IF tasks[i].path = "fb" THEN "fin" ELSE "ofin",
       ![i].hres = IF ok THEN "ok" ELSE "rej"]
  /\ microq' = Append(microq, i)
  /\ UNCHANGED <<quietVars, route, activeComponents,
                 componentHtmlCache, brokerConnComponents, conns,
                 registerCalls, unregisterCalls, lastDelivered, genq>>

\* processEventAndGenerateMessage after `await handleEvent`: a rejected
\* handler returns null; else render (a throw returns null), store the new
\* markup in componentHtmlCache and build the patch message
FallbackFinish(i) ==
  /\ microq # <<>> /\ Head(microq) = i
  /\ tasks[i].pc = "fin"
  /\ LET k == tasks[i].target
         r == RenderOf(k)
     IN IF tasks[i].hres = "ok" /\ r.ok
          THEN /\ componentHtmlCache' = [componentHtmlCache EXCEPT ![k] = r.html]
               /\ tasks' = [tasks EXCEPT ![i].pc = "send", ![i].new = r.html]
               /\ genq' = [genq EXCEPT ![k] = Append(@, i)]
               /\ microq' = Append(Tail(microq), i)
          ELSE /\ tasks' = [tasks EXCEPT ![i] = Idle]
               /\ microq' = Tail(microq)
               /\ UNCHANGED <<componentHtmlCache, genq>>
  /\ UNCHANGED <<quietVars, views, route, activeComponents,
                 brokerConnComponents, conns, registerCalls, unregisterCalls,
                 lastDelivered>>

\* the connection named in a send, looked up in the mapping by component
\* instead of taken from the event (mutant)
SendDest_registered(tk) ==
  IF \E c \in Conns : tk.target \in brokerConnComponents[c]
    THEN CHOOSE c \in Conns : tk.target \in brokerConnComponents[c]
    ELSE tk.conn

\* sendToConnection(connection_id, ...): the connection_id of the event
SendDest(tk) == tk.conn

\* a send whose failure is not caught: the call of the event path never
\* completes (mutant)
SendOf_raise(i, delivered) ==
  LET k == tasks[i].target IN
  /\ lastDelivered' = IF delivered
                        THEN [lastDelivered EXCEPT ![k] = tasks[i].new]
                        ELSE lastDelivered
  /\ genq' = [genq EXCEPT ![k] = Without(@, i)]
  /\ tasks' = [tasks EXCEPT ![i] =
                 IF delivered THEN Idle ELSE [@ EXCEPT !.pc = "raised"]]
  /\ microq' = Without(microq, i)
  /\ lastSend' = [to |-> SendDest(tasks[i]), from |-> tasks[i].conn]
  /\ pendingOutside' =
       IF tasks[i].new.body = views[tasks[i].target].state
         THEN [pendingOutside EXCEPT ![tasks[i].target] = FALSE]
         ELSE pendingOutside
  /\ UNCHANGED <<otherVars, views, route, activeComponents,
                 componentHtmlCache, brokerConnComponents, conns,
                 registerCalls, unregisterCalls>>

\* a message passed to rustBroker.sendToConnection of the event's connection:
\* the call delivers it, or throws and the error is caught and logged
SendOf(i, delivered) ==
  LET k == tasks[i].target IN
  /\ lastDelivered' = IF delivered
                        THEN [lastDelivered EXCEPT ![k] = tasks[i].new]
                        ELSE lastDelivered
  /\ genq' = [genq EXCEPT ![k] = Without(@, i)]
  /\ tasks' = [tasks EXCEPT ![i] = Idle]
  /\ microq' = Without(microq, i)
  /\ lastSend' = [to |-> SendDest(tasks[i]), from |-> tasks[i].conn]
  /\ pendingOutside' =
       IF tasks[i].new.body = views[tasks[i].target].state
         THEN [pendingOutside EXCEPT ![tasks[i].target] = FALSE]
         ELSE pendingOutside
  /\ UNCHANGED <<otherVars, views, route, activeComponents,
                 componentHtmlCache, brokerConnComponents, conns,
                 registerCalls, unregisterCalls>>

\* a send taken out of turn, ahead of the microtasks queued before it
\* (mutant)
FallbackSend_unordered(i, delivered) ==
  /\ tasks[i].pc = "send"
  /\ SendOf(i, delivered)

\* the event path after `await processEventAndGenerateMessage`: send
FallbackSend(i, delivered) ==
  /\ microq # <<>> /\ Head(microq) = i
  /\ tasks[i].pc = "send"
  /\ SendOf(i, delivered)

\* handleEventProcessingRequest after `await handleEvent`: success with the
\* new markup, or success: false when the handler rejected or render threw
OptFinish(i) ==
  /\ microq # <<>> /\ Head(microq) = i
  /\ tasks[i].pc = "ofin"
  /\ LET k == tasks[i].target
         r == RenderOf(k)
     IN IF tasks[i].hres = "ok" /\ r.ok
          THEN /\ tasks' = [tasks EXCEPT ![i].pc = "osend", ![i].ok = TRUE,
                                         ![i].new = r.html]
               /\ genq' = [genq EXCEPT ![k] = Append(@, i)]
          ELSE /\ tasks' = [tasks EXCEPT ![i].pc = "osend", ![i].ok = FALSE,
                              ![i].bad = IF tasks[i].hres = "ok"
                                           THEN "render" ELSE "handler"]
               /\ UNCHANGED genq
  /\ microq' = Append(Tail(microq), i)
  /\ UNCHANGED <<quietVars, views, route, activeComponents,
                 componentHtmlCache, brokerConnComponents, conns,
                 registerCalls, unregisterCalls, lastDelivered>>

\* handleBrokerEvent after `await handleEventProcessingRequest`: on success
\* the engine builds the message and it is sent; when the response is not a
\* success, or the engine throws, control falls through to the compact /
\* direct / JSON path, which handles the same message again
OptSend(i, engineOk, delivered, hout, d) ==
  /\ microq # <<>> /\ Head(microq) = i
  /\ tasks[i].pc = "osend"
  /\ IF tasks[i].ok /\ engineOk
       THEN SendOf(i, delivered)
       ELSE FallbackStart(i, tasks[i], Tail(microq), hout, d)

(***************************************************************************)
(* Broker events that reach no event path.                                 *)
(***************************************************************************)
\* texts a broker event may consist of that are not a Connected, Message or
\* Closed event: empty, blank, the literal null, malformed, a number, an
\* object without type, an object of unknown type
RawEvents == {"", " ", "null", "{bad", "42", "{}", "{\"type\":\"X\"}"}

\* String.prototype.trim on these texts
Trim(t) == IF t = " " THEN "" ELSE t

\* JSON.parse on these texts: throws (ok = FALSE) or returns a value, of
\* which the code reads typeof and the type property
JsonParse(t) ==
  CASE t = "null" -> [ok |-> TRUE, isObject |-> FALSE, type |-> "none"]
    [] t = "42" -> [ok |-> TRUE, isObject |-> FALSE, type |-> "none"]
    [] t = "{}" -> [ok |-> TRUE, isObject |-> TRUE, type |-> "none"]
    [] t = "{\"type\":\"X\"}" -> [ok |-> TRUE, isObject |-> TRUE, type |-> "X"]
    [] OTHER -> [ok |-> FALSE, isObject |-> FALSE, type |-> "none"]

\* handleBrokerEvent without its outer try/catch (mutant)
handleBrokerEvent_decode_nocatch(t) ==
  IF t = "" \/ Trim(t) = "" \/ t = "null" THEN "warnEmpty"
  ELSE LET evt == JsonParse(t) IN
    IF ~evt.ok THEN "rejected"
    ELSE IF ~evt.isObject THEN "warnNotObject"
    ELSE IF evt.type = "none" THEN "warnNoType"
    ELSE IF evt.type \in {"Connected", "Message", "Closed"} THEN "dispatch"
    ELSE "ignored"

\* handleBrokerEvent up to its switch: the checks made on the text and on
\* the parsed value, in the order of the code; what JSON.parse throws is
\* caught and logged by the outer try/catch
handleBrokerEvent_decode(t) ==
  IF t = "" \/ Trim(t) = "" \/ t = "null" THEN "warnEmpty"
  ELSE LET evt == JsonParse(t) IN
    IF ~evt.ok THEN "caught"
    ELSE IF ~evt.isObject THEN "warnNotObject"
    ELSE IF evt.type = "none" THEN "warnNoType"
    ELSE IF evt.type \in {"Connected", "Message", "Closed"} THEN "dispatch"
    ELSE "ignored"

\* a broker event that is none of Connected, Message, Closed
BadEvent(t) ==
  /\ microq = <<>>
  /\ handleBrokerEvent_decode(t) # "dispatch"
  /\ dropped' = handleBrokerEvent_decode(t)
  /\ UNCHANGED <<lifeVars, hasEngine, views, route, activeComponents,
                 componentHtmlCache, brokerConnComponents, conns, tasks,
                 microq, registerCalls, unregisterCalls, lastDelivered, genq,
                 lastSend, pendingOutside>>

\* a Message whose data is a compact event of fewer than three parts: the
\* optimized path, if taken, fails on it and handleCompactEvent warns and
\* returns
BadCompact(c) ==
  /\ microq = <<>>
  /\ conns[c] = "open"
  /\ dropped' = "warnCompact"
  /\ UNCHANGED <<lifeVars, hasEngine, views, route, activeComponents,
                 componentHtmlCache, brokerConnComponents, conns, tasks,
                 microq, registerCalls, unregisterCalls, lastDelivered, genq,
                 lastSend, pendingOutside>>

\* a keepalive taken for an event of its connection (mutant)
Keepalive_registers(c) ==
  /\ microq = <<>>
  /\ conns[c] = "open"
  /\ dropped' = "ping"
  /\ brokerConnComponents' = [brokerConnComponents EXCEPT ![c] = Comps]
  /\ UNCHANGED <<lifeVars, hasEngine, views, route, activeComponents,
                 componentHtmlCache, conns, tasks,
                 microq, registerCalls, unregisterCalls, lastDelivered, genq,
                 lastSend, pendingOutside>>

\* a Message whose data is the keepalive "p": with the engine
\* isPingMessage(data) returns at once, without it data === '"p"' does
Keepalive(c) ==
  /\ microq = <<>>
  /\ conns[c] = "open"
  /\ dropped' = "ping"
  /\ UNCHANGED <<lifeVars, hasEngine, views, route, activeComponents,
                 componentHtmlCache, brokerConnComponents, conns, tasks,
                 microq, registerCalls, unregisterCalls, lastDelivered, genq,
                 lastSend, pendingOutside>>

\* setState called on a mounted component outside an event cycle (a pub/sub
\* handler, a timer): the state is merged and scheduleRerender only logs
SetStateOutside(k, d) ==
  /\ microq = <<>>
  /\ k \in activeComponents /\ views[k].mounted
  /\ views' = Bumped(k, d)
  /\ pendingOutside' = [pendingOutside EXCEPT ![k] = TRUE]
  /\ UNCHANGED <<otherVars, route, activeComponents, componentHtmlCache,
                 brokerConnComponents, conns, tasks, microq, registerCalls,
                 unregisterCalls, lastDelivered, genq, lastSend>>

(***************************************************************************)
(* LiveTSConnector (packages/client/src/connector.ts): the socket, the     *)
(* reconnection and the delegated listeners.                               *)
(***************************************************************************)
\* the variables the connector's socket handling leaves alone
connRest == <<lv, lvHook, lvCalls, lvRender, lvGhost, lvState, lvSet,
              eventVars, patchVars, codecVars, injVars, tplVars, regVars,
              serverVars>>

RECURSIVE Pow2(_)
Pow2(n) == IF n = 0 THEN 1 ELSE 2 * Pow2(n - 1)

\* attemptReconnect without the ceiling (mutant)
attemptReconnect_noLimit(n) ==
  [attempts |-> n + 1, schedule |-> TRUE, delay |-> reconnectDelay * Pow2(n)]

\* attemptReconnect(): below the ceiling the counter is incremented and a
\* timer set, at the ceiling only an error is logged
attemptReconnect(n) ==
  IF n < maxReconnectAttempts
    THEN [attempts |-> n + 1, schedule |-> TRUE,
          delay |-> reconnectDelay * Pow2((n + 1) - 1)]
    ELSE [attempts |-> n, schedule |-> FALSE, delay |-> lastDelay]

\* ws.onopen
WsOpen ==
  /\ wsState = "connecting"
  /\ wsState' = "open"
  /\ reconnectAttempts' = 0
  /\ UNCHANGED <<connRest, timerPending, lastDelay, listeners, lastSent,
                 manual>>

\* disconnect(): this.ws.close(), which starts the closing handshake of a
\* socket that is connecting or open and does nothing to any other; the
\* close event comes later
Disconnect ==
  /\ wsState' = IF wsState \in {"connecting", "open"} THEN "closing"
                ELSE wsState
  /\ manual' = TRUE
  /\ UNCHANGED <<connRest, reconnectAttempts, timerPending, lastDelay,
                 listeners, lastSent>>

\* ws.onclose, after a failed connect, a lost connection or disconnect()
WsClose ==
  /\ wsState \in {"connecting", "open", "closing"}
  /\ wsState' = "closed"
  /\ LET r == attemptReconnect(reconnectAttempts) IN
       /\ reconnectAttempts' = r.attempts
       /\ timerPending' = r.schedule
       /\ lastDelay' = r.delay
  /\ UNCHANGED <<connRest, listeners, lastSent, manual>>

\* the timer of attemptReconnect fires: a new socket and setupEventListeners
\* again, which adds four more listeners to document; a constructor that
\* throws is caught before setupEventListeners
ReconnectTimer(ctorOk) ==
  /\ timerPending
  /\ listeners["click"] < MaxSockets
  /\ timerPending' = FALSE
  /\ IF ctorOk
       THEN /\ wsState' = "connecting"
            /\ listeners' = [e \in DomEvents |-> listeners[e] + 1]
       ELSE UNCHANGED <<wsState, listeners>>
  /\ UNCHANGED <<connRest, reconnectAttempts, lastDelay, lastSent, manual>>

\* one user interaction of type e on a bound element inside a component:
\* every listener of the type runs handleDomEvent, which sends when the
\* socket is open
DomEvent(e) ==
  /\ lastSent' = IF wsState = "open" THEN listeners[e] ELSE 0
  /\ UNCHANGED <<connRest, manual, wsState, reconnectAttempts, timerPending,
                 lastDelay, listeners>>

(***************************************************************************)
(* The patch messages: what the server builds for a cycle (server.ts) and  *)
(* what the connector does with a message (connector.ts).                  *)
(***************************************************************************)
\* the variables the patch messages leave alone
patchRest == <<lv, lvHook, lvCalls, lvRender, lvGhost, lvState, lvSet,
               eventVars, connVars, codecVars, injVars, tplVars, regVars,
               serverVars>>

\* the close token of the element whose children start at i
RECURSIVE CloseOf(_, _, _)
CloseOf(d, i, depth) ==
  IF i > Len(d) THEN 0
  ELSE IF d[i].t = "open" THEN CloseOf(d, i + 1, depth + 1)
  ELSE IF d[i].t = "close"
    THEN IF depth = 1 THEN i ELSE CloseOf(d, i + 1, depth - 1)
  ELSE CloseOf(d, i + 1, depth)

\* document.querySelector(sel): the first element in document order, 0
\* for null
querySelector(d, sel) ==
  LET S == {i \in 1..Len(d) : d[i].t = "open" /\ d[i].id = sel}
  IN IF S = {} THEN 0 ELSE CHOOSE i \in S : \A j \in S : i <= j

\* tokens a..b of d replaced by ins
Splice(d, a, b, ins) == SubSeq(d, 1, a - 1) \o ins \o SubSeq(d, b + 1, Len(d))

\* temp.innerHTML = html; temp.firstElementChild
firstElementChild(html) ==
  LET i == querySelector([j \in 1..Len(html) |-> [html[j] EXCEPT !.id = "*"]],
                         "*")
  IN IF i = 0 THEN <<>> ELSE SubSeq(html, i, CloseOf(html, i + 1, 1))

\* a DomPatch; n stands for content, text or value and is Absent when the
\* field is undefined
DomPatch(type, selector, n, html, position) ==
  [type |-> type, selector |-> selector, n |-> n, html |-> html,
   position |-> position]

\* the patches of the batches received
Patches ==
  { DomPatch("UpdateText", "s0", 1, <<>>, ""),
    DomPatch("ReplaceText", "s0", 2, <<>>, ""),
    DomPatch("UpdateText", "s0", Absent, <<>>, ""),
    DomPatch("UpdateText", "gone", 1, <<>>, ""),
    DomPatch("UpdateText", "bad", 1, <<>>, ""),
    DomPatch("SetAttribute", "s0", 1, <<>>, ""),
    DomPatch("RemoveAttribute", "s0", 0, <<>>, ""),
    DomPatch("ReplaceInnerHtml", "k1", 0, Elem("s1", 0), ""),
    DomPatch("ReplaceElement", "s0", 0, Elem("s1", 1), ""),
    DomPatch("InsertElement", "k1", 0, Elem("s1", 0), "beforeEnd"),
    DomPatch("InsertElement", "k1", 0, Elem("s0", 2), "afterBegin"),
    DomPatch("InsertElement", "s1", 0, Elem("s0", 0), "beforeBegin"),
    DomPatch("InsertElement", "s0", 0, Elem("s1", 2), "afterEnd"),
    DomPatch("RemoveElement", "s0", 0, <<>>, "") }

\* querySelector throws on a selector that is not valid CSS
SelectorThrows(sel) == sel = "bad"

\* one case of the switch in applyPatches, inside its try/catch: the
\* document after the patch
ApplyPatch(d, p) ==
  IF SelectorThrows(p.selector) THEN d
  ELSE
    LET i == querySelector(d, p.selector)
        c == CloseOf(d, i + 1, 1)
        el == firstElementChild(p.html)
    IN
    IF i = 0 THEN d
    ELSE CASE p.type \in {"ReplaceText", "UpdateText"} ->
                IF p.n # Absent THEN Splice(d, i + 1, c - 1, <<Text(p.n)>>)
                ELSE d
           [] p.type = "SetAttribute" ->
                IF p.n # Absent THEN [d EXCEPT ![i].n = p.n] ELSE d
           [] p.type = "RemoveAttribute" -> [d EXCEPT ![i].n = 0]
           [] p.type = "ReplaceInnerHtml" -> Splice(d, i + 1, c - 1, p.html)
           [] p.type = "ReplaceElement" ->
                IF el # <<>> THEN Splice(d, i, c, el) ELSE d
           [] p.type = "InsertElement" ->
                IF el = <<>> THEN d
                ELSE CASE p.position = "beforeBegin" -> Splice(d, i, i - 1, el)
                       [] p.position = "afterBegin" ->
                            Splice(d, i + 1, i, el)
                       [] p.position = "beforeEnd" -> Splice(d, c, c - 1, el)
                       [] p.position = "afterEnd" ->
                            Splice(d, c + 1, c, el)
                       [] OTHER -> d
           [] p.type = "RemoveElement" -> Splice(d, i, c, <<>>)
           [] OTHER -> d

\* applyPatches giving up the batch at an op whose target is missing
\* (mutant)
RECURSIVE applyPatches_abort(_, _)
applyPatches_abort(d, patches) ==
  IF patches = <<>> THEN d
  ELSE IF SelectorThrows(Head(patches).selector)
          \/ querySelector(d, Head(patches).selector) = 0
    THEN d
  ELSE applyPatches_abort(ApplyPatch(d, Head(patches)), Tail(patches))

\* applyPatches(patches): patches.forEach, each patch in its own try/catch
RECURSIVE applyPatches(_, _)
applyPatches(d, patches) ==
  IF patches = <<>> THEN d
  ELSE applyPatches(ApplyPatch(d, Head(patches)), Tail(patches))

\* handleMessage(message) after JSON.parse: only an object whose type is
\* 'patches' and that has patches reaches applyPatches; 'pong' and 'error'
\* are known and do nothing; anything else is warned about. A message
\* without the key type has type "undefined".
handleMessage(d, m) ==
  IF m.type = "patches" THEN applyPatches(d, m.patches) ELSE d

\* which case of the switch in handleMessage a message takes
CaseOf(m) ==
  IF m.type = "patches" THEN "applied"
  ELSE IF m.type \in {"pong", "error"} THEN "known"
  ELSE "unknown"

\* fallbackDiff(componentId, oldHtml, newHtml): nothing for equal renders,
\* else one ReplaceInnerHtml of the root with the whole new markup
fallbackDiff(old, new) ==
  IF old # new
    THEN <<DomPatch("ReplaceInnerHtml", new.id, 0, PageOf(new), "")>>
    ELSE <<>>

\* the message of the legacy server: JSON.stringify({type: 'patches',
\* componentId, patches}), parsed
LegacyMessage(old, new) ==
  [type |-> "patches", patches |-> fallbackDiff(old, new), t |-> "undefined",
   d |-> <<>>]

\* the message processEventAndGenerateMessage builds without the engine:
\* {"t":"p","c":shortId,"d":["h|[data-livets-id=\"id\"]|newHtml"]}, parsed;
\* it has no key type, and it is built whatever oldHtml is
CompactMessage(old, new) ==
  [type |-> "undefined", patches |-> <<>>, t |-> "p",
   d |-> <<[op |-> "h", sel |-> new.id, html |-> PageOf(new)]>>]

\* the ops a message carries
OpsOf(m) == IF m.t = "p" THEN Len(m.d) ELSE Len(m.patches)

\* an event cycle that renders body n, on the broker server ("broker") or
\* the legacy server ("legacy"), and the connector handling its message
PatchCycle(via, n) ==
  LET new == [id |-> pageCache.id, body |-> n]
      m == IF via = "broker" THEN CompactMessage(pageCache, new)
           ELSE LegacyMessage(pageCache, new)
  IN /\ doc' = handleMessage(doc, m)
     /\ Len(doc') <= MaxDoc
     /\ pageCache' = new
     /\ lastRx' = [seen |-> TRUE, via |-> via, old |-> pageCache,
                   new |-> new, nops |-> OpsOf(m), kind |-> CaseOf(m),
                   batch |-> m.patches]
     /\ UNCHANGED patchRest

\* a patches message whose batch the native differ produced
EngineBatch(batch) ==
  LET m == [type |-> "patches", patches |-> batch, t |-> "undefined",
            d |-> <<>>]
  IN /\ doc' = handleMessage(doc, m)
     /\ Len(doc') <= MaxDoc
     /\ lastRx' = [seen |-> TRUE, via |-> "engine", old |-> NoHtml,
                   new |-> NoHtml, nops |-> OpsOf(m), kind |-> CaseOf(m),
                   batch |-> m.patches]
     /\ UNCHANGED <<patchRest, pageCache>>

\* a pong, an error or some other message of the server
OtherMessage(type) ==
  LET m == [type |-> type, patches |-> <<>>, t |-> "undefined", d |-> <<>>]
  IN /\ doc' = handleMessage(doc, m)
     /\ lastRx' = [seen |-> TRUE, via |-> type, old |-> NoHtml,
                   new |-> NoHtml, nops |-> 0, kind |-> CaseOf(m),
                   batch |-> m.patches]
     /\ UNCHANGED <<patchRest, pageCache>>

\* the batches of at most MaxBatch patches
RECURSIVE BatchesOf(_)
BatchesOf(n) ==
  IF n = 0 THEN {<<>>}
  ELSE BatchesOf(n - 1)
         \cup {Append(b, p) : b \in {x \in BatchesOf(n - 1) : Len(x) = n - 1},
                              p \in Patches}

Batches == BatchesOf(MaxBatch)

(***************************************************************************)
(* The compact client event: the encoder of the fallback connector and the *)
(* decoder of handleCompactEvent (server.ts).                              *)
(***************************************************************************)
\* the variables the codec leaves alone
codecRest == <<lv, lvHook, lvCalls, lvRender, lvGhost, lvState, lvSet,
               eventVars, connVars, patchVars, injVars, tplVars, regVars,
               serverVars>>

Chars == {"a", "1", "|"}

\* the strings of at most n characters
RECURSIVE StringsOf(_)
StringsOf(n) ==
  IF n = 0 THEN {<<>>}
  ELSE StringsOf(n - 1)
         \cup {Append(x, c) : x \in {y \in StringsOf(n - 1) : Len(y) = n - 1},
                              c \in Chars}

Strings == StringsOf(MaxField)

\* the client events: any short id, handler name and value, a lower-case
\* tag name
Tuples ==
  [shortId : {<<"a">>, <<"1", "a">>, <<"|">>}, eventName : Strings,
   value : Strings, checked : BOOLEAN, tagName : {<<"a">>, <<"b">>}]

\* handleDomEvent of the fallback connector:
\* '"e|' + shortId + '|' + handler + '|' + value + '|' + checked + '|' +
\* tagName + '"'
EncodeCompact(tp) ==
  <<"\"", "e", "|">> \o tp.shortId \o <<"|">> \o tp.eventName \o <<"|">>
    \o tp.value \o <<"|">> \o <<IF tp.checked THEN "1" ELSE "0">> \o <<"|">>
    \o tp.tagName \o <<"\"">>

\* content.split('|')
RECURSIVE Split(_)
Split(str) ==
  IF \A i \in 1..Len(str) : str[i] # "|" THEN <<str>>
  ELSE LET i == CHOOSE j \in 1..Len(str) :
                  str[j] = "|" /\ \A h \in 1..(j - 1) : str[h] # "|"
       IN <<SubSeq(str, 1, i - 1)>> \o Split(SubSeq(str, i + 1, Len(str)))

\* parts[i] || ''
PartOr(parts, i) == IF i + 1 <= Len(parts) THEN parts[i + 1] ELSE <<>>

\* the decoder keeping the surrounding quotes (mutant)
handleCompactEvent_decode_noslice(data) ==
  LET parts == Split(data) IN
    IF Len(parts) < 3 \/ parts[1] # <<"e">>
      THEN [seen |-> TRUE, ok |-> FALSE, tuple |-> NoTuple]
      ELSE [seen |-> TRUE, ok |-> TRUE,
            tuple |-> [shortId |-> PartOr(parts, 1),
                       eventName |-> PartOr(parts, 2),
                       value |-> PartOr(parts, 3),
                       checked |-> PartOr(parts, 4) = <<"1">>,
                       tagName |-> PartOr(parts, 5)]]

\* handleCompactEvent up to the lookup: data.slice(1, -1), split, the
\* format test and the five fields
handleCompactEvent_decode(data) ==
  LET content == SubSeq(data, 2, Len(data) - 1)
      parts == Split(content)
  IN IF Len(parts) < 3 \/ parts[1] # <<"e">>
       THEN [seen |-> TRUE, ok |-> FALSE, tuple |-> NoTuple]
       ELSE [seen |-> TRUE, ok |-> TRUE,
             tuple |-> [shortId |-> PartOr(parts, 1),
                        eventName |-> PartOr(parts, 2),
                        value |-> PartOr(parts, 3),
                        checked |-> PartOr(parts, 4) = <<"1">>,
                        tagName |-> PartOr(parts, 5)]]

\* the fallback connector sends the event
SendCompact ==
  /\ evWire = <<>>
  /\ evWire' = EncodeCompact(evTuple)
  /\ UNCHANGED <<codecRest, evTuple, evDecoded>>

\* the server decodes the text it received
ReceiveCompact ==
  /\ evWire # <<>> /\ ~evDecoded.seen
  /\ evDecoded' = handleCompactEvent_decode(evWire)
  /\ UNCHANGED <<codecRest, evTuple, evWire>>

(***************************************************************************)
(* The selector injector (packages/core/src/utils.ts).                     *)
(***************************************************************************)
\* the variables the injector leaves alone
injRest == <<lv, lvHook, lvCalls, lvRender, lvGhost, lvState, lvSet,
             eventVars, connVars, patchVars, codecVars, tplVars, regVars,
             serverVars>>

\* an attribute of an opening tag; n is the counter of a data-ts-sel token
\* of this component and 0 in every other attribute
Attr(a, n) == [a |-> a, n |-> n]

\* attributes.includes(a)
Includes(attributes, a) == \E i \in 1..Len(attributes) : attributes[i].a = a

\* the opening tags of the markups: plain, with class=, with ts-on:, with
\* both, and with a token of an earlier pass
Tags ==
  { <<>>,
    <<Attr("class=", 0)>>,
    <<Attr("ts-on:", 0)>>,
    <<Attr("ts-on:", 0), Attr("class=", 0)>>,
    <<Attr("data-ts-sel=", 0), Attr("class=", 0)>>,
    <<Attr("data-ts-sel=", 1), Attr("ts-on:", 0)>>,
    <<Attr("data-ts-sel=", 0)>> }

\* the markups of at most n opening tags
RECURSIVE MarkupsOf(_)
MarkupsOf(n) ==
  IF n = 0 THEN {<<>>}
  ELSE MarkupsOf(n - 1)
         \cup {Append(h, tg) : h \in {x \in MarkupsOf(n - 1) : Len(x) = n - 1},
                               tg \in Tags}

Markups == MarkupsOf(MaxTags)

\* the replace callback giving a token to tokenized tags too (mutant)
RECURSIVE injectReactiveSelectorsSmart_noskip(_, _)
injectReactiveSelectorsSmart_noskip(html, selectorCounter) ==
  IF html = <<>> THEN <<>>
  ELSE LET attributes == Head(html) IN
    IF Includes(attributes, "ts-on:") \/ Includes(attributes, "class=")
      THEN <<<<Attr("data-ts-sel=", selectorCounter)>> \o attributes>>
             \o injectReactiveSelectorsSmart_noskip(Tail(html),
                                                    selectorCounter + 1)
      ELSE <<attributes>>
             \o injectReactiveSelectorsSmart_noskip(Tail(html),
                                                    selectorCounter)

\* injectReactiveSelectorsSmart(html, componentId): html.replace over the
\* opening tags from left to right; a tag that has data-ts-sel= is
\* returned as it is, a tag with ts-on: or class= gets
\* data-ts-sel="<hash>.<counter>" in front of its attributes and the
\* counter is incremented, any other tag is returned as it is
RECURSIVE injectReactiveSelectorsSmart(_, _)
injectReactiveSelectorsSmart(html, selectorCounter) ==
  IF html = <<>> THEN <<>>
  ELSE LET attributes == Head(html) IN
    IF Includes(attributes, "data-ts-sel=")
      THEN <<attributes>>
             \o injectReactiveSelectorsSmart(Tail(html), selectorCounter)
    ELSE IF Includes(attributes, "ts-on:") \/ Includes(attributes, "class=")
      THEN <<<<Attr("data-ts-sel=", selectorCounter)>> \o attributes>>
             \o injectReactiveSelectorsSmart(Tail(html), selectorCounter + 1)
    ELSE <<attributes>>
           \o injectReactiveSelectorsSmart(Tail(html), selectorCounter)

\* a pass of the injector over the markup, the first over the input and
\* every later one over the output of the pass before
Inject ==
  /\ injPass < MaxPasses
  /\ LET html == IF injPass = 0 THEN injIn ELSE injOut IN
       /\ injPrev' = html
       /\ injOut' = injectReactiveSelectorsSmart(html, 0)
  /\ injPass' = injPass + 1
  /\ UNCHANGED <<injRest, injIn>>

(***************************************************************************)
(* The html template tag (packages/core/src/utils.ts) and the boundary     *)
(* marker of _render (packages/core/src/decorators.ts).  A markup is the   *)
(* sequence of its characters; MarkerAttr stands for the characters of     *)
(* ' data-livets-id="<componentId>"'.                                      *)
(***************************************************************************)
\* the variables the template tag and the wrapper leave alone
tplRest == <<lv, lvHook, lvCalls, lvRender, lvGhost, lvState, lvSet,
             eventVars, connVars, patchVars, codecVars, injVars, regVars,
             serverVars>>

MarkerAttr == "@id"

\* \s and \w of the regular expression
Space == {" "}
Word == {"d", "h", "0", "1", "f"}

\* a value interpolated into a template: what typeof gives for it, whether
\* value.toString is a function, and the characters toString() returns
JsValue(type, hasToString, text) ==
  [type |-> type, hasToString |-> hasToString, text |-> text]

\* the values of the templates: the numbers 0 and 1, false, null,
\* undefined, the strings "", "h" and "<", and Object.create(null)
JsValues ==
  { JsValue("number", TRUE, <<"0">>),
    JsValue("number", TRUE, <<"1">>),
    JsValue("boolean", TRUE, <<"f">>),
    JsValue("null", FALSE, <<>>),
    JsValue("undefined", FALSE, <<>>),
    JsValue("string", TRUE, <<>>),
    JsValue("string", TRUE, <<"h">>),
    JsValue("string", TRUE, <<"<">>),
    JsValue("object", FALSE, <<>>) }

\* the literal parts of the templates: nothing, an opening tag, an opening
\* tag after a blank, a closing tag, a text, a comment
Literals ==
  { <<>>,
    <<"<", "d", ">">>,
    <<" ", "<", "d", ">">>,
    <<"<", "/", "d", ">">>,
    <<"h">>,
    <<"<", "!", ">">> }

\* the templates of one interpolated value
Templates ==
  { [strings |-> <<s0, s1>>, values |-> <<v>>] :
      s0 \in Literals, s1 \in Literals, v \in JsValues }

\* escapeHtml(text): the five replacements, character by character
RECURSIVE escapeHtml(_)
escapeHtml(text) ==
  IF text = <<>> THEN <<>>
  ELSE LET c == Head(text) IN
    << CASE c = "&" -> "&amp;"
         [] c = "<" -> "&lt;"
         [] c = ">" -> "&gt;"
         [] c = "\"" -> "&quot;"
         [] c = "'" -> "&#039;"
         [] OTHER -> c >> \o escapeHtml(Tail(text))

\* a value test by truthiness, which drops 0, false and "" (mutant)
html_value_truthy(value) ==
  IF value.type = "string" THEN escapeHtml(value.text)
  ELSE IF /\ value.type \notin {"null", "undefined"}
          /\ value.text \notin {<<"0">>, <<"f">>, <<>>}
          /\ value.hasToString
    THEN escapeHtml(value.text)
  ELSE <<>>

\* the text one interpolated value adds to the result: a string is
\* escaped; a value that is neither null nor undefined and has a toString
\* function adds its escaped toString(); the number 0 that reached the
\* third branch adds "0"; everything else adds nothing
html_value(value) ==
  IF value.type = "string" THEN escapeHtml(value.text)
  ELSE IF value.type \notin {"null", "undefined"} /\ value.hasToString
    THEN escapeHtml(value.text)
  ELSE IF value.type = "number" /\ value.text = <<"0">> THEN <<"0">>
  ELSE <<>>

\* the template tag html(strings, ...values): strings[0], then for every value its text
\* and the string after it
RECURSIVE html_template(_, _)
html_template(strings, values) ==
  IF values = <<>> THEN strings[1]
  ELSE LET n == Len(values) IN
    html_template(SubSeq(strings, 1, n), SubSeq(values, 1, n - 1))
      \o html_value(values[n]) \o strings[n + 1]

\* the index of the first character of html at or after i that is not
\* white space, Len(html) + 1 when there is none
RECURSIVE SkipSpace(_, _)
SkipSpace(markup, i) ==
  IF i <= Len(markup) /\ markup[i] \in Space THEN SkipSpace(markup, i + 1)
  ELSE i

\* the index of the first ">" of html at or after i, 0 when there is none
RECURSIVE FirstGt(_, _)
FirstGt(markup, i) ==
  IF i > Len(markup) THEN 0
  ELSE IF markup[i] = ">" THEN i
  ELSE FirstGt(markup, i + 1)

\* where /^(\s*)<(\w+)([^>]*)>/ ends in html: the index of the ">" that
\* closes the match, 0 when the expression does not match
MatchEnd(markup) ==
  LET lt == SkipSpace(markup, 1) IN
    IF /\ lt + 1 <= Len(markup)
       /\ markup[lt] = "<"
       /\ markup[lt + 1] \in Word
      THEN FirstGt(markup, lt + 2)
      ELSE 0

\* wrapWithComponentId(html) on the characters: the replace puts the
\* attribute before the ">" that ends the match and returns html as it is
\* when the expression does not match; an empty result is replaced by a
\* div that carries the attribute
wrapWithComponentId_text(markup) ==
  LET gt == MatchEnd(markup)
      wrappedHtml ==
        IF gt = 0 THEN markup
        ELSE SubSeq(markup, 1, gt - 1) \o <<MarkerAttr>>
               \o SubSeq(markup, gt, Len(markup))
  IN IF wrappedHtml # <<>> THEN wrappedHtml
     ELSE <<"<", "d", MarkerAttr, ">">> \o markup \o <<"<", "/", "d", ">">>

\* the render hook evaluates its template
Template ==
  /\ ~tplOut.seen
  /\ tplOut' = [seen |-> TRUE, text |-> html_template(tplIn.strings,
                                                  tplIn.values)]
  /\ UNCHANGED <<tplIn, wrapOut, tplRest>>

\* _render of a mounted instance: this.render(), then wrapWithComponentId
RenderWrapped ==
  /\ tplOut.seen
  /\ ~wrapOut.seen
  /\ wrapOut' = [seen |-> TRUE, text |-> wrapWithComponentId_text(tplOut.text)]
  /\ UNCHANGED <<tplIn, tplOut, tplRest>>

(***************************************************************************)
(* The registry of the server (server.ts): instances and their ids,        *)
(* activeComponents as the Map it is, the short id lookup and close().     *)
(* An id is the pair of its first eight characters and the rest.           *)
(***************************************************************************)
\* the variables the registry leaves alone
regRest == <<lv, lvHook, lvCalls, lvRender, lvGhost, lvState, lvSet,
             eventVars, connVars, patchVars, codecVars, injVars, tplVars,
             serverVars>>

\* instances created in one run
MaxObjs == 3

\* the component ids: two that share their first eight characters and one
\* that does not
ComponentIds == {<<"a", "1">>, <<"a", "2">>, <<"b", "1">>}

\* what the request gives as the id query parameter
NoId == <<>>

\* fullId.substring(0, 8)
ShortOf(fullId) == fullId[1]

\* uuidv4(): an id no instance has had yet; its first eight characters may
\* be those of another id
uuidv4 == {id \in ComponentIds :
             \A o \in 1..Len(liveObjs) : liveObjs[o].id # id}

\* the constructor of LiveView: this.componentId = props.id || uuidv4()
NewIds(propsId) == IF propsId # NoId THEN {propsId} ELSE uuidv4

\* activeComponents.has(id)
HasEntry(id) == \E i \in 1..Len(acEntries) : acEntries[i].id = id

\* activeComponents.set(id, obj): the entry of an id the Map has keeps its
\* place and gets the new value, any other id is added at the end
MapSet(entries, id, obj) ==
  IF \E i \in 1..Len(entries) : entries[i].id = id
    THEN [i \in 1..Len(entries) |->
            IF entries[i].id = id THEN [id |-> id, obj |-> obj]
            ELSE entries[i]]
    ELSE Append(entries, [id |-> id, obj |-> obj])

\* findComponentIdByShortId(shortId): the id of the first entry of
\* activeComponents whose id starts with shortId, NoId for null
findComponentIdByShortId(shortId) ==
  LET hits == {i \in 1..Len(acEntries) : ShortOf(acEntries[i].id) = shortId}
  IN IF hits = {} THEN NoId
     ELSE acEntries[CHOOSE i \in hits : \A j \in hits : i <= j].id

\* activeComponents.get(id), 0 when the Map has no entry
ActiveGet(id) ==
  IF HasEntry(id)
    THEN (CHOOSE e \in {acEntries[i] : i \in 1..Len(acEntries)} :
            e.id = id).obj
    ELSE 0

\* GET on a component route: new ComponentClass(props) with the query
\* parameters as props, _mount(), activeComponents.set, _render(),
\* componentHtmlCache.set; a mount hook that throws ends the request with
\* the instance unmounted and unregistered
Request(propsId, hookOk) ==
  /\ Len(liveObjs) < MaxObjs
  /\ \E id \in NewIds(propsId) :
       /\ liveObjs' = Append(liveObjs, [id |-> id, mounted |-> hookOk,
                                        cleanups |-> 0])
       /\ IF hookOk
            THEN /\ acEntries' = MapSet(acEntries, id, Len(liveObjs) + 1)
                 /\ cacheKeys' = cacheKeys \cup {id}
            ELSE UNCHANGED <<acEntries, cacheKeys>>
  /\ UNCHANGED <<closePc, closePos, lastRouted, regRest>>

\* a compact event from the page of instance x, which carries the first
\* eight characters of x's id: handleCompactEvent looks the id up and
\* processEventAndGenerateMessage calls handleEvent on the instance
\* activeComponents has for it
CompactEvent(x) ==
  /\ x \in 1..Len(liveObjs)
  /\ LET componentId == findComponentIdByShortId(ShortOf(liveObjs[x].id))
     IN lastRouted' = [seen |-> TRUE, from |-> x,
                       to |-> IF componentId = NoId THEN 0
                              ELSE ActiveGet(componentId)]
  /\ UNCHANGED <<liveObjs, acEntries, cacheKeys, closePc, closePos, regRest>>

\* close() up to its loop: rustBroker.stop(), then the iterator of
\* activeComponents.values()
CloseStart ==
  /\ closePc = "idle"
  /\ closePc' = "running"
  /\ closePos' = 1
  /\ UNCHANGED <<liveObjs, acEntries, cacheKeys, lastRouted, regRest>>

\* one turn of the loop: await component._unmount().  _unmount returns for
\* an instance that is not mounted; otherwise the unmount hook runs, and
\* when it throws _unmount rethrows with mounted still true, which rejects
\* close()
CloseStep(hookOk) ==
  /\ closePc = "running"
  /\ closePos <= Len(acEntries)
  /\ LET o == acEntries[closePos].obj IN
       IF ~liveObjs[o].mounted
         THEN /\ closePos' = closePos + 1
              /\ UNCHANGED <<liveObjs, closePc>>
         ELSE /\ liveObjs' = [liveObjs EXCEPT
                                ![o].cleanups = @ + 1,
                                ![o].mounted = ~hookOk]
              /\ IF hookOk
                   THEN /\ closePos' = closePos + 1
                        /\ UNCHANGED closePc
                   ELSE /\ closePc' = "rejected"
                        /\ UNCHANGED closePos
  /\ UNCHANGED <<acEntries, cacheKeys, lastRouted, regRest>>

\* the loop is done: activeComponents.clear(), componentHtmlCache.clear()
CloseFinish ==
  /\ closePc = "running"
  /\ closePos > Len(acEntries)
  /\ acEntries' = <<>>
  /\ cacheKeys' = {}
  /\ closePc' = "resolved"
  /\ UNCHANGED <<liveObjs, closePos, lastRouted, regRest>>

(***************************************************************************)
(* Next-state relations.                                                   *)
(***************************************************************************)
\* what arrives at the server with connections CS and component routes KS
\* in use: events that name the ids IDS, their handlers ending as HO tells
\* and advancing the state by a step of DS, the mount hooks setting an
\* initial state of S0S
Arrivals(CS, KS, IDS, HO, DS, S0S) ==
  \/ \E c \in CS : Connected(c)
  \/ \E c \in CS : Closed(c)
  \/ \E k \in KS, hout \in HandlerOutcomes, s0 \in S0S :
       RouteStart(k, hout, s0)
  \/ \E k \in KS, ok \in BOOLEAN, s0 \in S0S : RouteSettle(k, ok, s0)
  \/ \E i \in Slots, c \in CS, f \in Forms, id \in IDS,
        parseOk \in BOOLEAN, hout \in HO, d \in DS :
       Message(i, c, f, id, parseOk, hout, d)

\* the continuations of the awaits of the event paths
Continuations(HO, DS) ==
  \/ \E i \in Slots : FallbackFinish(i)
  \/ \E i \in Slots, delivered \in BOOLEAN : FallbackSend(i, delivered)
  \/ \E i \in Slots : OptFinish(i)
  \/ \E i \in Slots, engineOk \in BOOLEAN, delivered \in BOOLEAN,
        hout \in HO, d \in DS :
       OptSend(i, engineOk, delivered, hout, d)

ServerNext(CS, KS, IDS, HO, DS, S0S) ==
  \/ Arrivals(CS, KS, IDS, HO, DS, S0S)
  \/ \E i \in Slots, ok \in BOOLEAN, d \in DS : HandlerResumes(i, ok, d)
  \/ Continuations(HO, DS)

Init == LifeInit /\ lvHook = TRUE /\ ServerInit

\* one connection and one component route: the id k2 stays unknown to the
\* server
Next == ServerNext({"c1"}, {"k1"}, Comps, HandlerOutcomes, {0, 1}, {0, 2})

Spec == Init /\ [][Next]_vars

\* two connections and one component, whose handlers leave the state as
\* the mount hook set it
NextConns == ServerNext(Conns, {"k1"}, {"k1"}, HandlerOutcomes, {0}, {0})

SpecConns == Init /\ [][NextConns]_vars

\* one connection and one component with handlers that never suspend, the
\* broker also delivering keepalives and events it cannot dispatch, and the
\* state also set outside the event cycles
NextWire ==
  \/ Arrivals({"c1"}, {"k1"}, Comps, {"ok", "throw"}, {0, 1}, {0, 2})
  \/ Continuations({"ok", "throw"}, {0, 1})
  \/ \E c \in {"c1"} : Keepalive(c)
  \/ \E t \in RawEvents : BadEvent(t)
  \/ \E c \in {"c1"} : BadCompact(c)
  \/ SetStateOutside("k1", 1)

\* every continuation queued is run
SpecWire == Init /\ [][NextWire]_vars /\ WF_vars(Continuations({"ok", "throw"}, {0, 1}))

\* one connection and two components with handlers that never suspend
NextIso ==
  \/ Arrivals({"c1"}, Comps, Comps, {"ok", "throw"}, {0, 1}, {0, 2})
  \/ Continuations({"ok", "throw"}, {0, 1})

SpecIso == Init /\ [][NextIso]_vars

\* the lifecycle of one instance, the server left as constructed
LifeStart == LifeInit /\ ServerInit /\ hasEngine = FALSE

SpecLife == LifeStart /\ [][LifeNext]_vars

\* an instance, a connector and a page as constructed
SideStart == LifeStart /\ lvHook = TRUE

\* one instance that is mounted and whose setState is called
StateNext ==
  \/ CallMount
  \/ \E i \in 1..Len(lvCalls), ok \in BOOLEAN : SettleMount(i, ok, {})
  \/ \E u \in [Keys -> Vals \cup {Absent}], h \in UpdatedOutcomes :
       SetState(u, h)

SpecState == LifeStart /\ [][StateNext]_vars

\* one instance whose handlers are registered and removed and whose
\* handleEvent is called
EventNext ==
  \/ \E n \in Names, h \in Handlers : On(n, h)
  \/ \E n \in Names : Off(n)
  \/ \E n \in Names, ok \in BOOLEAN : HandleEvent(n, ok)

SpecEvents == SideStart /\ [][EventNext]_vars

\* one instance of a class with decorated methods, mounted and given the
\* events of a client, whose names are the client's choice
ClientNext ==
  \/ \E n \in Names, m \in Methods \ {"_unmount"} : DecorateEvent(n, m)
  \/ CallMount
  \/ \E i \in 1..Len(lvCalls), ok \in BOOLEAN : SettleMount(i, ok, Channels)
  \/ \E n \in Names, ok \in BOOLEAN : HandleEvent(n, ok)

SpecClient == SideStart /\ [][ClientNext]_vars

\* one connector whose socket opens, closes and is reopened
ReconnectNext ==
  \/ WsOpen
  \/ WsClose
  \/ Disconnect
  \/ \E ok \in BOOLEAN : ReconnectTimer(ok)
  \/ \E e \in DomEvents : DomEvent(e)

SpecReconnect == SideStart /\ [][ReconnectNext]_vars

\* one client event, of any content, on its way to the server
CodecStart ==
  /\ LiveViewInit /\ lvHook = TRUE /\ ServerInit /\ hasEngine = FALSE
  /\ EventInit /\ ConnInit /\ PatchInit /\ InjInit
  /\ RegInit
  /\ TplInit
  /\ evTuple \in Tuples
  /\ evWire = <<>>
  /\ evDecoded = [seen |-> FALSE, ok |-> FALSE, tuple |-> NoTuple]

CodecNext == SendCompact \/ ReceiveCompact

SpecCodec == CodecStart /\ [][CodecNext]_vars

\* one markup, of any content, given to the injector
InjStart ==
  /\ LiveViewInit /\ lvHook = TRUE /\ ServerInit /\ hasEngine = FALSE
  /\ EventInit /\ ConnInit /\ PatchInit /\ CodecInit
  /\ RegInit
  /\ TplInit
  /\ injIn \in Markups
  /\ injOut = <<>>
  /\ injPrev = <<>>
  /\ injPass = 0

InjNext == Inject

SpecInject == InjStart /\ [][InjNext]_vars

\* one template, of any content, evaluated by a render hook and wrapped
TplStart ==
  /\ LiveViewInit /\ lvHook = TRUE /\ ServerInit /\ hasEngine = FALSE
  /\ EventInit /\ ConnInit /\ PatchInit /\ CodecInit /\ InjInit
  /\ RegInit
  /\ tplIn \in Templates
  /\ tplOut = [seen |-> FALSE, text |-> <<>>]
  /\ wrapOut = [seen |-> FALSE, text |-> <<>>]

TplNext == Template \/ RenderWrapped

SpecTemplate == TplStart /\ [][TplNext]_vars

\* requests, compact events and close() on one server
RegNext ==
  \/ \E propsId \in ComponentIds \cup {NoId}, hookOk \in BOOLEAN :
       Request(propsId, hookOk)
  \/ \E x \in 1..MaxObjs : CompactEvent(x)
  \/ CloseStart
  \/ \E hookOk \in BOOLEAN : CloseStep(hookOk)
  \/ CloseFinish

SpecRegistry == SideStart /\ [][RegNext]_vars

\* one page whose component is re-rendered by event cycles and whose
\* connector handles the messages
PatchNext ==
  \/ \E via \in {"broker", "legacy"}, n \in 0..(NStates - 1) :
       PatchCycle(via, n)
  \/ \E b \in Batches : EngineBatch(b)
  \/ \E type \in {"pong", "error", "other"} : OtherMessage(type)

SpecPatch == SideStart /\ [][PatchNext]_vars

(***************************************************************************)
(* Properties of the lifecycle (SpecLife).                                 *)
(***************************************************************************)
\* C6 - render precondition: a _render call on an instance that is not
\* Mounted (never mounted, mount pending or failed, unmount completed) fails
\* and does not invoke the user render hook; a _render call succeeds only on
\* an instance whose mount has completed and whose unmount has not.
C6_RenderPrecondition ==
  lvRender.seen =>
    /\ (~lvRender.live => ~lvRender.ok /\ ~lvRender.hook)
    /\ (lvRender.ok => lvRender.live)

\* C6, its case: _render was called while the mount hook was still pending
\* and was refused without calling the render hook
C6_RenderRefusedDuringMount ==
  /\ lvRender.seen /\ lvRender.busy /\ ~lvRender.live
  /\ ~lvRender.ok /\ ~lvRender.hook

\* C7 - unmount idempotence: while the unmount hook never throws, over all
\* calls of _unmount on a mounted instance no call ends in an error, the
\* user unmount hook runs at most once and no channel is unsubscribed more
\* than once.
C7_UnmountIdempotent ==
  ~lvGhost.hookFailed =>
    /\ \A i \in 1..Len(lvCalls) :
         lvCalls[i].op = "unmount" => lvCalls[i].result # "error"
    /\ lvGhost.unmountRuns <= 1
    /\ \A c \in Channels : lvGhost.unsubs[c] <= 1

(***************************************************************************)
(* Properties of the server (Spec).                                        *)
(***************************************************************************)
\* C1 - per-component serialization: no two client events for the same
\* component have both had their handler invoked while neither cycle has
\* finished.
C1_PerComponentSerialized ==
  \A i, j \in Slots :
    (i # j /\ tasks[i].runs >= 1 /\ tasks[j].runs >= 1)
      => tasks[i].target # tasks[j].target

\* C2 - render-snapshot invariant: whenever no continuation is pending, the
\* cached markup of a component is the markup of the last render delivered
\* to its client.
C2_RenderSnapshot ==
  microq = <<>> =>
    \A k \in Comps :
      componentHtmlCache[k] # NoHtml => componentHtmlCache[k] = lastDelivered[k]

\* C3 - patch ordering: the renders generated for one component leave the
\* queue of generated renders at its head only, so their patches are passed
\* to sendToConnection in the order of generation, one send per step.
C3_PatchOrdering ==
  [][\A k \in Comps :
       \/ genq'[k] = genq[k]
       \/ genq[k] # <<>> /\ genq'[k] = Tail(genq[k])
       \/ \E i \in Slots : genq'[k] = Append(genq[k], i)]_vars

\* C3, its case: two renders of one component are generated and not yet
\* sent, the later slot's first
C3_TwoRendersPending == genq["k1"] = <<2, 1>>

\* C4 - failed render: an event during whose cycle the render threw never
\* gets a patch generated, stored in the cache and sent.
C4_FailedRenderNoPatch ==
  \A i \in Slots : tasks[i].bad = "render" => tasks[i].pc # "send"

\* C5 - failed handler: an event whose handler threw or rejected never gets
\* a patch generated, stored in the cache and sent.
C5_FailedHandlerNoPatch ==
  \A i \in Slots : tasks[i].bad = "handler" => tasks[i].pc # "send"

\* C8 - mount outcome: the mount hook of an instance runs at most once; when
\* it succeeds the instance is mounted; when it fails the request is
\* answered with the error, the instance stays unmounted and is neither in
\* activeComponents nor in componentHtmlCache.
C8_MountOutcome ==
  \A k \in Comps :
    /\ route[k].mountRuns <= 1
    /\ route[k].pc \in {"ok", "renderFailed"} => views[k].mounted
    /\ route[k].pc = "mountFailed" => ~views[k].mounted
    /\ ~views[k].mounted =>
         k \notin activeComponents /\ componentHtmlCache[k] = NoHtml

\* C8, its case: the mount hook ran once and failed
C8_MountFailed ==
  route["k1"].pc = "mountFailed" /\ route["k1"].mountRuns = 1

\* C9 - idempotent registration: on an open connection c, once an event for
\* a component k of the server is being handled the pair (c, k) is recorded
\* in brokerConnComponents, and the pair is registered with the broker at
\* most once.
C9_RegistrationRecorded ==
  /\ \A i \in Slots :
       (tasks[i].pc # "idle" /\ Found(tasks[i].target)
          /\ conns[tasks[i].conn] = "open")
         => tasks[i].target \in brokerConnComponents[tasks[i].conn]
  /\ \A c \in Conns, k \in Comps :
       conns[c] = "open" => registerCalls[c][k] <= 1

\* C10 - connection close cleanup: the step that handles Closed for c
\* unregisters every component recorded for c exactly once and no other,
\* removes the entry of c, and leaves the instances, activeComponents and
\* componentHtmlCache as they were.
C10_ClosedCleanup ==
  [][\A c \in Conns :
       (conns[c] = "open" /\ conns'[c] = "closed") =>
         /\ brokerConnComponents'[c] = {}
         /\ \A k \in Comps :
              unregisterCalls'[c][k] =
                unregisterCalls[c][k]
                  + (IF k \in brokerConnComponents[c] THEN 1 ELSE 0)
         /\ views' = views
         /\ activeComponents' = activeComponents
         /\ componentHtmlCache' = componentHtmlCache]_vars

\* C10, its case: the connection of a mounted, cached component was closed
\* and the component unregistered
C10_ClosedWithComponent ==
  /\ conns["c1"] = "closed"
  /\ unregisterCalls["c1"]["k1"] = 1
  /\ brokerConnComponents["c1"] = {}
  /\ views["k1"].mounted /\ "k1" \in activeComponents
  /\ componentHtmlCache["k1"] # NoHtml

\* C11 - mandatory teardown: once Closed has been handled for connection c
\* and no event received on c is still being handled, brokerConnComponents
\* holds no component for c.
C11_MandatoryTeardown ==
  \A c \in Conns :
    (conns[c] = "closed" /\ \A i \in Slots : tasks[i].conn # c)
      => brokerConnComponents[c] = {}

\* C15 - routing error is a no-op: an event naming an id that matches no
\* active component leaves the connection-to-component mapping unchanged, so
\* the mapping only ever holds ids of active components.
C15_RoutingErrorNoOp ==
  \A c \in Conns : brokerConnComponents[c] \subseteq activeComponents

\* C14 - best-effort send: the step that hands a patch to sendToConnection
\* ends the event's handling normally whether or not the message is
\* delivered, and changes no instance, map or connection.
C14_BestEffortSend ==
  [][\A i \in Slots :
       (tasks[i].pc = "send" /\ tasks'[i] # tasks[i]) =>
         /\ tasks'[i] = Idle
         /\ views' = views
         /\ activeComponents' = activeComponents
         /\ componentHtmlCache' = componentHtmlCache
         /\ brokerConnComponents' = brokerConnComponents
         /\ conns' = conns]_vars

\* C14, its case: without the engine, the connection is closed, no event is
\* in flight and the cached render was never delivered: its send failed and
\* was swallowed
C14_SendSwallowed ==
  /\ ~hasEngine
  /\ conns["c1"] = "closed"
  /\ \A i \in Slots : tasks[i] = Idle
  /\ componentHtmlCache["k1"] # NoHtml
  /\ componentHtmlCache["k1"] # lastDelivered["k1"]

(***************************************************************************)
(* Properties of the server with two connections (SpecConns).              *)
(***************************************************************************)
\* C12 - one connection per component: no active component is in the
\* component sets of two connections at once.
C12_OneConnectionPerComponent ==
  \A c \in Conns, e \in Conns :
    c # e =>
      brokerConnComponents[c] \cap brokerConnComponents[e]
        \cap activeComponents = {}

\* C18 - reply routing: every sendToConnection call names the connection
\* on which the event it answers was received.
C18_ReplyRouting == lastSend.to = lastSend.from

\* C18, its case: a patch was sent for an event of c1 while an event of c2
\* is in flight
C18_SentWhileOtherInFlight ==
  /\ lastSend.from = "c1"
  /\ \E i \in Slots : tasks[i].conn = "c2" /\ tasks[i].pc = "io"

(***************************************************************************)
(* Properties of the broker events that reach no event path, and of        *)
(* setState outside the event cycles (SpecWire).                           *)
(***************************************************************************)
\* C13 - keepalive: the step that handles the keepalive "p" starts no event
\* handling (no lookup, handler or render), sends nothing and leaves
\* activeComponents, componentHtmlCache, the instances and the connection
\* mapping as they were.
C13_KeepaliveNoOp ==
  [][(dropped' = "ping" /\ dropped # "ping") =>
       /\ tasks' = tasks /\ microq' = microq
       /\ views' = views
       /\ activeComponents' = activeComponents
       /\ componentHtmlCache' = componentHtmlCache
       /\ brokerConnComponents' = brokerConnComponents
       /\ registerCalls' = registerCalls
       /\ lastSend' = lastSend /\ lastDelivered' = lastDelivered]_vars

\* C13, its case: a keepalive was handled on the connection of a mounted,
\* registered component
C13_KeepaliveSeen ==
  /\ dropped = "ping"
  /\ "k1" \in activeComponents
  /\ "k1" \in brokerConnComponents["c1"]

\* C16 - defensive decoding: a broker event that is empty, blank, the
\* literal null, malformed, not an object or without a type ends in a
\* warning or in the outer catch, never in a rejection, and the step starts
\* no event handling, sends nothing and leaves every map as it was.
C16_DefensiveDecoding ==
  [][(dropped' # dropped /\ dropped' # "ping") =>
       /\ dropped' \in {"warnEmpty", "caught", "warnNotObject",
                        "warnNoType", "ignored", "warnCompact"}
       /\ tasks' = tasks /\ microq' = microq
       /\ views' = views
       /\ activeComponents' = activeComponents
       /\ componentHtmlCache' = componentHtmlCache
       /\ brokerConnComponents' = brokerConnComponents
       /\ registerCalls' = registerCalls
       /\ unregisterCalls' = unregisterCalls
       /\ lastSend' = lastSend /\ lastDelivered' = lastDelivered]_vars

\* C16, its case: malformed text was caught, and an event that arrived
\* after it is being handled
C16_EventAfterMalformed ==
  /\ dropped = "caught"
  /\ \E i \in Slots : tasks[i].pc = "fin" /\ tasks[i].target = "k1"

\* C19 - state change triggers re-render: whenever setState was called on a
\* mounted component outside an event cycle, eventually a patch whose render
\* shows the component's state is sent.
C19_SetStateRerenders ==
  \A k \in Comps :
    (pendingOutside[k]
       /\ \E c \in Conns : conns[c] = "open" /\ k \in brokerConnComponents[c])
    ~> (~pendingOutside[k]
          \/ ~\E c \in Conns :
                conns[c] = "open" /\ k \in brokerConnComponents[c])

(***************************************************************************)
(* Properties of the server with two components (SpecIso).                 *)
(***************************************************************************)
\* C17 - failure isolation: a step of an event cycle for component A leaves
\* the state, the mounted flag, the cached and the delivered render of
\* every other component B as they were, keeps B in the component sets it
\* was in, and changes neither the connections nor activeComponents.
C17_FailureIsolation ==
  [][\A i \in Slots, B \in Comps :
       LET A == IF tasks[i].target # "none" THEN tasks[i].target
                ELSE tasks'[i].target
       IN (tasks'[i] # tasks[i] /\ A # B) =>
            /\ views'[B] = views[B]
            /\ componentHtmlCache'[B] = componentHtmlCache[B]
            /\ lastDelivered'[B] = lastDelivered[B]
            /\ conns' = conns
            /\ activeComponents' = activeComponents
            /\ \A c \in Conns :
                 (B \in brokerConnComponents'[c])
                   = (B \in brokerConnComponents[c])]_vars

\* C17, its case: k1 is in the state whose render throws, so its last cycle
\* failed, and a patch has been generated for an event of k2
C17_OtherComponentServed ==
  /\ views["k1"].state = 2 /\ componentHtmlCache["k1"] # NoHtml
  /\ \E i \in Slots : tasks[i].target = "k2" /\ tasks[i].pc = "send"

(***************************************************************************)
(* Properties of setState (SpecState).                                     *)
(***************************************************************************)
\* C20 - post-update hook failures never propagate: every setState call
\* returns normally, whatever the updated hook does, and leaves the state
\* with the given keys overwritten and all other keys unchanged.
C20_SetStateNeverThrows ==
  lvSet.seen =>
    /\ ~lvSet.threw
    /\ \A k \in Keys :
         lvState[k] = IF lvSet.updates[k] # Absent THEN lvSet.updates[k]
                      ELSE lvSet.prev[k]

(***************************************************************************)
(* Properties of handleEvent (SpecEvents).                                 *)
(***************************************************************************)
\* C21 - event dispatch: handleEvent invokes the handler registered for the
\* name and nothing else if there is one; otherwise the method of that name
\* if the component has one; otherwise nothing is invoked, the state is
\* unchanged and no error is raised.
C21_EventDispatch ==
  lvDispatch.seen =>
    /\ lvDispatch.reg # "none" =>
         lvDispatch.kind = "handler" /\ lvDispatch.who = lvDispatch.reg
    /\ (lvDispatch.reg = "none" /\ lvDispatch.event \in Methods) =>
         lvDispatch.kind = "method" /\ lvDispatch.who = lvDispatch.event
    /\ (lvDispatch.reg = "none" /\ lvDispatch.event \notin Methods) =>
         /\ lvDispatch.kind = "warn" /\ lvDispatch.who = "none"
         /\ ~lvDispatch.threw
         /\ lvState = lvDispatch.prev

\* C21, its case: an event whose name is both a registered handler and a
\* method was dispatched, after the method had run for an earlier event
C21_HandlerShadowsMethod ==
  /\ lvDispatch.seen /\ lvDispatch.event = "inc" /\ lvDispatch.reg = "h1"
  /\ lvDispatch.prev["a"] = 0

(***************************************************************************)
(* Properties of the connector's socket handling (SpecReconnect).          *)
(***************************************************************************)
\* C27 - bounded reconnect: the counter stays within 0..maxReconnectAttempts;
\* every attempt scheduled is the next one, after reconnectDelay * 2^(n-1)
\* ms for the n-th; an open resets the counter to 0; once the counter is at
\* the ceiling and no timer is pending, none is ever set.
C27_BoundedReconnect ==
  /\ [](reconnectAttempts \in 0..maxReconnectAttempts)
  /\ [][/\ (timerPending' /\ ~timerPending) =>
             /\ reconnectAttempts' = reconnectAttempts + 1
             /\ lastDelay' = 1000 * Pow2(reconnectAttempts' - 1)
        /\ (wsState' = "open" /\ wsState # "open") => reconnectAttempts' = 0
        /\ (reconnectAttempts = maxReconnectAttempts /\ ~timerPending
              /\ wsState' # "open") => ~timerPending']_vars

\* C27, its case: the fifth attempt in a row, scheduled after 16 s, has
\* failed and nothing is pending
C27_GaveUp ==
  /\ reconnectAttempts = maxReconnectAttempts /\ lastDelay = 16000
  /\ wsState = "closed" /\ ~timerPending
  /\ listeners["click"] = 6

\* C28 - single delegated listener: in every state exactly one listener
\* exists per DOM event type, and one user interaction sends at most one
\* event message.
C28_SingleListener ==
  /\ \A e \in DomEvents : listeners[e] = 1
  /\ lastSent <= 1

(***************************************************************************)
(* Properties of the patch messages (SpecPatch).                           *)
(***************************************************************************)
\* the element texts of a document, in document order
VisibleText(d) == SelectSeq(d, LAMBDA x : x.t = "text")

\* the elements of a document other than the component roots, with their
\* attributes, in document order
Attributes(d) == SelectSeq(d, LAMBDA x : x.t = "open" /\ x.id # "k1")

\* the elements of a document that carry the boundary marker of k
MarkerCount(d, k) == Cardinality({i \in 1..Len(d) : d[i].t = "open" /\ d[i].id = k})

\* the batch applied from the right: the last patch applied to what the
\* patches before it made of the document
RECURSIVE InOrder(_, _)
InOrder(d, b) ==
  IF b = <<>> THEN d
  ELSE ApplyPatch(InOrder(d, SubSeq(b, 1, Len(b) - 1)), b[Len(b)])

\* C22 - wire conformance: every patch-batch message the broker server
\* emits for an event is recognised by the connector's message handler and
\* its ops are applied.
C22_WireConformance ==
  (lastRx.seen /\ lastRx.via = "broker") => lastRx.kind = "applied"

\* C23 - patch soundness: when the document holds the old render, handling
\* the message generated for (old render, new render) leaves a document
\* with the visible text and attributes of the new render and exactly one
\* element carrying the component's boundary marker.
C23_PatchSoundness ==
  [][((lastRx' # lastRx \/ doc' # doc)
        /\ lastRx'.via \in {"broker", "legacy"}
        /\ doc = PageOf(lastRx'.old)) =>
       /\ VisibleText(doc') = VisibleText(PageOf(lastRx'.new))
       /\ Attributes(doc') = Attributes(PageOf(lastRx'.new))
       /\ MarkerCount(doc', lastRx'.new.id) = 1]_vars

\* C24 - diff idempotence: a cycle whose new render equals the cached
\* previous render produces a message without any op.
C24_DiffIdempotence ==
  (lastRx.seen /\ lastRx.via \in {"broker", "legacy"}
     /\ lastRx.new = lastRx.old) => lastRx.nops = 0

\* C26 - client patch application: a batch given to applyPatches leaves the
\* document that its patches make one after the other in the order
\* received; a patch whose target is missing changes nothing and the
\* patches after it are applied all the same.
C26_PatchesInOrder ==
  [][((lastRx' # lastRx \/ doc' # doc) /\ lastRx'.kind = "applied") =>
       LET b == lastRx'.batch IN
         /\ doc' = InOrder(doc, b)
         /\ (b # <<>> /\ querySelector(doc, b[1].selector) = 0) =>
              doc' = InOrder(doc, Tail(b))]_vars

\* C26, its case: a batch of two whose first patch had no target was
\* handled, and its second patch changed the text of s0
C26_SkippedThenApplied ==
  /\ lastRx.kind = "applied" /\ Len(lastRx.batch) = 2
  /\ lastRx.batch[1].selector = "gone"
  /\ lastRx.batch[2] = DomPatch("UpdateText", "s0", 1, <<>>, "")
  /\ doc = PageOf([id |-> "k1", body |-> 1])

(***************************************************************************)
(* Properties of the compact client event (SpecCodec).                     *)
(***************************************************************************)
NoPipe(str) == \A i \in 1..Len(str) : str[i] # "|"

\* C25 - compact event round-trip: a client event whose fields contain no
\* pipe character is decoded by the server to the identical tuple
\* (shortId, eventName, value, checked, tagName).
C25_CompactRoundTrip ==
  (evDecoded.seen /\ NoPipe(evTuple.shortId) /\ NoPipe(evTuple.eventName)
     /\ NoPipe(evTuple.value) /\ NoPipe(evTuple.tagName)) =>
    evDecoded.ok /\ evDecoded.tuple = evTuple

\* C25, its case: an event with an empty value and checked false, as
\* "e|1a|a||0|b", was sent and decoded
C25_EmptyValueDecoded ==
  /\ evDecoded.seen
  /\ evTuple = [shortId |-> <<"1", "a">>, eventName |-> <<"a">>,
                value |-> <<>>, checked |-> FALSE, tagName |-> <<"b">>]
  /\ evWire = <<"\"", "e", "|", "1", "a", "|", "a", "|", "|", "0", "|", "b",
                "\"">>

(***************************************************************************)
(* Properties of the selector injector (SpecInject).                       *)
(***************************************************************************)
\* the counters of the data-ts-sel tokens of a markup, in document order
RECURSIVE TokensOf(_)
TokensOf(html) ==
  IF html = <<>> THEN <<>>
  ELSE SelectSeq(Head(html), LAMBDA x : x.a = "data-ts-sel=")
         \o TokensOf(Tail(html))

\* the counters of the tokens that a pass added, in document order
RECURSIVE AddedBy(_, _)
AddedBy(in, out) ==
  IF in = <<>> THEN <<>>
  ELSE (IF Len(Head(out)) > Len(Head(in)) THEN <<Head(out)[1].n>> ELSE <<>>)
         \o AddedBy(Tail(in), Tail(out))

\* C29 - selector-token uniqueness: in the output of a pass over any markup
\* whose tokens, if it has any, are distinct, no two elements carry the
\* same data-ts-sel token, and the tokens the pass assigned have the
\* counters 0, 1, 2, ... in document order.
C29_TokensUnique ==
  (injPass > 0
     /\ \A i, j \in 1..Len(TokensOf(injPrev)) :
          i # j => TokensOf(injPrev)[i] # TokensOf(injPrev)[j]) =>
    /\ \A i, j \in 1..Len(TokensOf(injOut)) :
         i # j => TokensOf(injOut)[i] # TokensOf(injOut)[j]
    /\ \A i \in 1..Len(AddedBy(injPrev, injOut)) :
         AddedBy(injPrev, injOut)[i] = i - 1

\* C30 - injector idempotence: a pass over the output of a pass returns it
\* unchanged, and in every pass a tag that carries a token keeps its
\* attributes as they are.
C30_InjectIdempotent ==
  /\ injPass > 1 => injOut = injPrev
  /\ injPass > 0 =>
       \A i \in 1..Len(injPrev) :
         Includes(injPrev[i], "data-ts-sel=") => injOut[i] = injPrev[i]

\* C30, its case: the second pass was made over a markup of which the
\* first pass had tokenized one tag and found another tokenized
C30_SecondPassDone ==
  /\ injPass = 2
  /\ Len(injIn) = 2
  /\ Includes(injIn[1], "data-ts-sel=")
  /\ ~Includes(injIn[2], "data-ts-sel=") /\ Includes(injIn[2], "class=")
  /\ Includes(injOut[2], "data-ts-sel=")

(***************************************************************************)
(* Properties of the html tag and of the boundary marker (SpecTemplate).   *)
(***************************************************************************)
\* the indices of markup at which an opening tag starts
TagStarts(markup) ==
  {i \in 1..(Len(markup) - 1) : markup[i] = "<" /\ markup[i + 1] \in Word}

\* the first element of markup carries the marker attribute exactly once
RootCarriesMarker(markup) ==
  /\ TagStarts(markup) # {}
  /\ LET lt == CHOOSE i \in TagStarts(markup) :
                 \A j \in TagStarts(markup) : i <= j
         gt == FirstGt(markup, lt)
     IN /\ gt # 0
        /\ Cardinality({i \in lt..gt : markup[i] = MarkerAttr}) = 1

\* the text the one interpolated value added to the result
Rendered ==
  SubSeq(tplOut.text, Len(tplIn.strings[1]) + 1,
         Len(tplOut.text) - Len(tplIn.strings[2]))

\* C31: whatever markup the render hook returns, the output of _render has
\* a root element that carries data-livets-id exactly once
C31_BoundaryMarker == wrapOut.seen => RootCarriesMarker(wrapOut.text)

\* C32, as amended: the number 0 renders as the text "0", and a value
\* renders as nothing only when it is null or undefined, has no toString
\* function, or has the empty text as its own text
C32_ZeroRendersAsText ==
  tplOut.seen =>
    LET value == tplIn.values[1] IN
      /\ tplOut.text
           = tplIn.strings[1] \o Rendered \o tplIn.strings[2]
      /\ (value.type = "number" /\ value.text = <<"0">>)
           => Rendered = <<"0">>
      /\ Rendered = <<>>
           => \/ value.type \in {"null", "undefined"}
              \/ ~value.hasToString
              \/ value.text = <<>>
      /\ value.type \in {"null", "undefined"} => Rendered = <<>>

\* C32 witness: the number 0 between the tags of an element rendered as
\* <d>0</d>
C32_Witness ==
  /\ tplOut.seen
  /\ tplIn.values[1] = JsValue("number", TRUE, <<"0">>)
  /\ tplOut.text = <<"<", "d", ">", "0", "<", "/", "d", ">">>

\* C32, as stated: the number 0 renders as "0" and only null and
\* undefined render as nothing
C32_OnlyNullAndUndefinedEmpty ==
  tplOut.seen =>
    LET value == tplIn.values[1] IN
      /\ (value.type = "number" /\ value.text = <<"0">>)
           => Rendered = <<"0">>
      /\ Rendered = <<>> => value.type \in {"null", "undefined"}

(***************************************************************************)
(* Properties of the registry (SpecRegistry).                              *)
(***************************************************************************)
\* the instances activeComponents holds
Registered == {acEntries[i].obj : i \in 1..Len(acEntries)}

\* C33: an instance created for a request gets an id that no entry of
\* activeComponents has, so that storing it replaces no other instance's
\* entry
C33_FreshComponentId ==
  [][\A propsId \in ComponentIds \cup {NoId} :
       Request(propsId, TRUE)
         => /\ ~HasEntry(liveObjs'[Len(liveObjs')].id)
            /\ Registered \subseteq {acEntries'[i].obj :
                                       i \in 1..Len(acEntries')}]_vars

\* C34: when close() settles, every instance activeComponents holds is
\* unmounted with its cleanup hook run once, and activeComponents and
\* componentHtmlCache are empty, whatever the unmount hooks do
C34_CloseUnmountsAll ==
  [][(closePc = "running" /\ closePc' \in {"resolved", "rejected"})
       => /\ acEntries' = <<>>
          /\ cacheKeys' = {}
          /\ \A o \in Registered :
               ~liveObjs'[o].mounted /\ liveObjs'[o].cleanups = 1]_vars

\* C38: a compact event that carries the short id of an instance that
\* activeComponents holds is dispatched to that instance
C38_ShortIdRouting ==
  [][\A x \in 1..MaxObjs :
       (CompactEvent(x) /\ x \in Registered) => lastRouted'.to = x]_vars

(***************************************************************************)
(* Properties of the server's handling of one event (Spec).                *)
(***************************************************************************)
\* C35: an inbound client event causes at most one invocation of the
\* component's handler, on every path, the optimized path that fails after
\* the handler ran included
C35_AtMostOnceHandling == \A i \in Slots : tasks[i].runs <= 1

\* C36: of two patch messages generated one after the other for one
\* component and passed to the broker in that order, the second was
\* computed from the new markup of the first as its old markup, under
\* every interleaving of events
C36_DiffBaselineChain ==
  \A k \in Comps : \A a \in 1..(Len(genq[k]) - 1) :
    LET i == genq[k][a]
        j == genq[k][a + 1]
    IN (/\ tasks[i].path = "fb" /\ tasks[i].pc = "send"
        /\ tasks[j].path = "fb" /\ tasks[j].pc = "send")
         => tasks[j].old = tasks[i].new

(***************************************************************************)
(* Properties of the events of a client (SpecClient).                      *)
(***************************************************************************)
\* the methods of LiveView that make its lifecycle
LifecycleMethods ==
  {"_mount", "_unmount", "mount", "unmount", "setState", "subscribe",
   "unsubscribe"}

\* C37: whatever the name of a client event, a mounted instance is still
\* mounted after handleEvent and no lifecycle method was invoked as the
\* target of the name
C37_EventsCannotDriveLifecycle ==
  [][\A n \in Names, ok \in BOOLEAN :
       (HandleEvent(n, ok) /\ lv.mounted)
         => /\ lv'.mounted
            /\ lvDispatch'.who \notin LifecycleMethods]_vars

\* C39: handleEvent for a name given to the Event decorator invokes the
\* decorated method, also when the name is not the name of the method
C39_DecoratorRegistration ==
  [][\A n \in Names, ok \in BOOLEAN :
       (HandleEvent(n, ok) /\ protoHandlers[n] # "none")
         => lvDispatch'.who = protoHandlers[n]]_vars

(***************************************************************************)
(* Properties of disconnect() (SpecReconnect).                             *)
(***************************************************************************)
\* C40: once disconnect() has been called the connector stays
\* disconnected: the close of the socket sets no reconnect timer and no
\* new socket is opened
C40_ManualDisconnectFinal ==
  [][manual =>
       /\ timerPending' => timerPending
       /\ wsState' \in {"connecting", "open"} => wsState' = wsState]_vars

====
